---- MODULE Spec2Model ----
(***************************************************************************)
(* wontun, the toy VPN of posts/vpn.md: routers (Device) that own a tun    *)
(* interface, a default UDP socket, an epoll instance and a vector of      *)
(* peers; each peer has a handshake state machine and an endpoint.         *)
(* Workers run the event loop of "Multithreading" against one shared poll. *)
(*                                                                         *)
(* Widths are reduced: an IPv4 address is AddrBits wide, an IPv4 header is *)
(* the three bytes <<0x45, src, dst>>, a peer name is one byte.            *)
(***************************************************************************)
EXTENDS Integers, Sequences, FiniteSets, TLC

\* ------------------------------------------------------------------ bounds
MaxTun == 1
MaxEnv == 1

AddrBits == 2

\* ------------------------------------------------------------ configuration
Routers == {"A", "B"}
MainWorker == "w0"
\* event_loop(0) on the main thread, event_loop(i) on the spawned ones
WorkersOf(r) == IF r = "A" THEN {"w0"} ELSE {"w0", "w1"}

NoAddr == "none"
NoIdx == -1
NoFd == [k |-> "none"]
UdpFd == [k |-> "udp"]
TunFd == [k |-> "tun"]
ConnFd(n) == [k |-> "conn", n |-> n]

\* the [Peer] sections of each host, in file order (Conf.peers; local_idx is
\* the position in the Vec, from 0)
PeerConf(r) ==
    IF r = "A"
    THEN << [name |-> <<67>>, endpoint |-> NoAddr,
             allowed_ips |-> {[ip |-> 0, cidr |-> 0]}],
            [name |-> <<66>>, endpoint |-> "b1",
             allowed_ips |-> {[ip |-> 2, cidr |-> 1]}] >>
    ELSE << [name |-> <<65>>, endpoint |-> NoAddr,
             allowed_ips |-> {[ip |-> 0, cidr |-> 2]}],
            [name |-> <<67>>, endpoint |-> NoAddr,
             allowed_ips |-> {[ip |-> 0, cidr |-> 1]}] >>

\* [Interface] Name
DeviceName(r) == IF r = "A" THEN <<65>> ELSE <<66>>

\* the public addresses a host sends from, the first one at startup
AddrsOf(r) == IF r = "A" THEN <<"a1", "a2">> ELSE <<"b1">>

NumPeers(r) == Len(PeerConf(r))
PeerIdx(r) == 0 .. (NumPeers(r) - 1)
use_connected_peer(r) == TRUE

\* ------------------------------------------------------------- wire format
TagInit == 1
TagResponse == 2
TagData == 3

Pow2(n) == 2 ^ n

\* a writer that keeps the low 16 bits of an index
LE16(n) == << n % 256, (n \div 256) % 256, 0, 0 >>

LE32(n) == << n % 256, (n \div 256) % 256, (n \div 65536) % 256,
              (n \div 16777216) % 256 >>

ReadLE32(b, at) ==
    b[at] + 256 * b[at + 1] + 65536 * b[at + 2] + 16777216 * b[at + 3]

Tail_(b, from) == IF from > Len(b) THEN <<>> ELSE SubSeq(b, from, Len(b))

HandshakeInit(name, idx) ==
    [kind |-> "HandshakeInit", sender_name |-> name, assigned_idx |-> idx]
HandshakeResponse(assigned, sender) ==
    [kind |-> "HandshakeResponse", assigned_idx |-> assigned, sender_idx |-> sender]
PacketData(sender, data) ==
    [kind |-> "Data", sender_idx |-> sender, data |-> data]
PacketEmpty == [kind |-> "Empty"]
ParseErr == [kind |-> "Err"]

format(p) ==
    CASE p.kind = "HandshakeInit" ->
            <<TagInit>> \o LE32(p.assigned_idx) \o <<Len(p.sender_name)>> \o p.sender_name
      [] p.kind = "HandshakeResponse" ->
            <<TagResponse>> \o LE32(p.assigned_idx) \o LE32(p.sender_idx)
      [] p.kind = "Data" ->
            <<TagData>> \o LE32(p.sender_idx) \o p.data
      [] OTHER -> <<>>

parse_from(b) ==
    IF Len(b) = 0 THEN PacketEmpty
    ELSE IF b[1] = TagInit THEN
        IF Len(b) >= 6 /\ Len(b) = 6 + b[6]
        THEN HandshakeInit(Tail_(b, 7), ReadLE32(b, 2))
        ELSE ParseErr
    ELSE IF b[1] = TagResponse THEN
        IF Len(b) = 9
        THEN HandshakeResponse(ReadLE32(b, 2), ReadLE32(b, 6))
        ELSE ParseErr
    ELSE IF b[1] = TagData THEN
        IF Len(b) >= 5
        THEN PacketData(ReadLE32(b, 2), Tail_(b, 6))
        ELSE ParseErr
    ELSE ParseErr

\* ------------------------------------------------------------- IPv4 header
Ipv4(src, dst) == <<69, src, dst>>

\* etherparse::Ipv4HeaderSlice::from_slice
Ipv4HeaderOk(data) == Len(data) >= 3 /\ data[1] = 69
\* a header read for the address the packet goes to
source_addr_destination(data) == data[3]

source_addr(data) == data[2]

\* a route looked up by the address the packet came from
destination_addr_source(data) == data[2]

destination_addr(data) == data[3]

\* -------------------------------------------------------------- AllowedIps
InRange(key, e) ==
    key \div Pow2(AddrBits - e.cidr) = e.ip \div Pow2(AddrBits - e.cidr)

\* a lookup that stops at the shortest matching prefix
AllowedIpsGetShortest(table, key) ==
    LET hits == {e \in table : InRange(key, e)}
    IN  IF hits = {} THEN NoIdx
        ELSE (CHOOSE e \in hits : \A f \in hits : e.cidr <= f.cidr).data

\* AllowedIps::get over a table of entries [ip, cidr, data]: the data of the
\* longest matching prefix, NoIdx when none matches
AllowedIpsGet(table, key) ==
    LET hits == {e \in table : InRange(key, e)}
    IN  IF hits = {} THEN NoIdx
        ELSE (CHOOSE e \in hits : \A f \in hits : f.cidr <= e.cidr).data

\* an insert that keeps the value already stored under the key
AllowedIpsInsertKeep(table, ip, cidr, data) ==
    LET old == {e \in table : e.ip = ip /\ e.cidr = cidr}
    IN  IF old = {}
        THEN [table |-> table \cup {[ip |-> ip, cidr |-> cidr, data |-> data]},
              prev |-> NoIdx]
        ELSE [table |-> table, prev |-> (CHOOSE e \in old : TRUE).data]

\* AllowedIps::insert: the entry under the exact key (ip, cidr) is replaced;
\* the previous data is returned, NoIdx for None
AllowedIpsInsert(table, ip, cidr, data) ==
    LET old == {e \in table : e.ip = ip /\ e.cidr = cidr}
    IN  [table |-> (table \ old) \cup {[ip |-> ip, cidr |-> cidr, data |-> data]},
         prev |-> IF old = {} THEN NoIdx ELSE (CHOOSE e \in old : TRUE).data]

\* Device.peers_by_ip, filled by add_peer from every peer's allowed ips
peers_by_ip(r) ==
    {[ip |-> e.ip, cidr |-> e.cidr, data |-> i] :
        <<i, e>> \in {<<j, f>> \in PeerIdx(r) \X UNION {PeerConf(r)[k].allowed_ips : k \in 1..NumPeers(r)} :
                        f \in PeerConf(r)[j + 1].allowed_ips}}

\* a filter that lets every source through
is_allowed_ip_any(r, i, src) == TRUE

\* Peer::is_allowed_ip
is_allowed_ip(r, i, src) ==
    \E e \in PeerConf(r)[i + 1].allowed_ips : InRange(src, e)

\* Device.peers_by_name.get / Device.peers_by_index.get
peers_by_name_get(r, name) ==
    IF \E i \in PeerIdx(r) : PeerConf(r)[i + 1].name = name
    THEN CHOOSE i \in PeerIdx(r) : PeerConf(r)[i + 1].name = name
    ELSE NoIdx

\* an index table whose entries sit one slot off
peers_by_index_get_shifted(r, idx) ==
    IF idx \in PeerIdx(r) THEN (idx + 1) % NumPeers(r) ELSE NoIdx

peers_by_index_get(r, idx) == IF idx \in PeerIdx(r) THEN idx ELSE NoIdx

\* ------------------------------------------------------------------- state
VARIABLES
    hs,          \* hs[r][i]: Peer.handshake_state of peer i of router r
    ep,          \* ep[r][i]: Peer.endpoint, [addr, conn]
    socks,       \* socks[r][n]: the n-th connected socket router r has opened
    dq,          \* dq[r]: datagrams queued on Device.udp
    tunq,        \* tunq[r]: packets readable from Device.iface
    tunw,        \* tunw[r]: what has been written to Device.iface
    registered,  \* registered[r]: the epoll interest list, [fd, token]
    ready,       \* ready[r]: the epoll ready list
    wk,          \* wk[r][w]: a worker's place in event_loop and its locals
    addr,        \* addr[r]: which of AddrsOf(r) the host sends from
    env,         \* what the environment has done so far
    pair         \* two Peer values driven by hand, for the handshake round trip

vars == <<hs, ep, socks, dq, tunq, tunw, registered, ready, wk, addr, env, pair>>

HsNone == [st |-> "None", remote_idx |-> NoIdx]
HsSent == [st |-> "HandshakeSent", remote_idx |-> NoIdx]
HsReceived(i) == [st |-> "HandshakeReceived", remote_idx |-> i]
HsConnected(i) == [st |-> "Connected", remote_idx |-> i]

ActNone == [kind |-> "None"]
WriteToNetwork(data) == [kind |-> "WriteToNetwork", data |-> data]
WriteToTunn(data, src) == [kind |-> "WriteToTunn", data |-> data, src |-> src]

TokenTun == [tag |-> "Tun"]
TokenDisconnected == [tag |-> "Sock", id |-> "Disconnected"]
TokenConnectedPeer(i) == [tag |-> "Sock", id |-> "ConnectedPeer", idx |-> i]

Idle(pc) ==
    [pc |-> pc, fd |-> NoFd, src |-> NoAddr, pkt |-> PacketEmpty, peer |-> NoIdx,
     changed |-> FALSE, conn |-> NoFd, act |-> ActNone, got |-> FALSE]

CurAddr(r) == AddrsOf(r)[addr[r]]

NoPair == [pc |-> "off"]

Devices ==
    /\ hs = [r \in Routers |-> [i \in PeerIdx(r) |-> HsNone]]
    /\ ep = [r \in Routers |-> [i \in PeerIdx(r) |->
                [addr |-> PeerConf(r)[i + 1].endpoint, conn |-> NoFd]]]
    /\ socks = [r \in Routers |-> <<>>]
    /\ dq = [r \in Routers |-> <<>>]
    /\ tunq = [r \in Routers |-> <<>>]
    /\ tunw = [r \in Routers |-> {}]
    /\ registered = [r \in Routers |-> {}]
    /\ ready = [r \in Routers |-> {}]
    /\ wk = [r \in Routers |-> [w \in WorkersOf(r) |-> Idle("init")]]
    /\ addr = [r \in Routers |-> 1]
    /\ env = [tun |-> 0, roams |-> 0, strays |-> 0, faults |-> 0, fault |-> "none",
              failed |-> {}]

Init == Devices /\ pair = NoPair

\* -------------------------------------------------------------------- Peer
\* a set_endpoint that leaves the endpoint alone
set_endpoint_never(e, a) == [ep |-> e, changed |-> FALSE, conn |-> NoFd]

\* the set_endpoint of the single-socket stage: only a peer without an
\* address takes one
set_endpoint_once(e, a) ==
    IF e.addr = NoAddr
    THEN [ep |-> [addr |-> a, conn |-> NoFd], changed |-> TRUE, conn |-> NoFd]
    ELSE [ep |-> e, changed |-> FALSE, conn |-> NoFd]

\* Peer::set_endpoint as handle_udp uses it: (endpoint_changed, previous conn)
set_endpoint(e, a) ==
    IF e.addr = a
    THEN [ep |-> e, changed |-> FALSE, conn |-> NoFd]
    ELSE [ep |-> [addr |-> a, conn |-> NoFd], changed |-> TRUE, conn |-> e.conn]

\* a sender that tags every Data packet with the first index
encapsulate_first(state, src) ==
    IF state.st \in {"HandshakeReceived", "Connected"}
    THEN WriteToNetwork(format(PacketData(0, src)))
    ELSE ActNone

\* an encapsulate that sends in every handshake state
encapsulate_always(state, src) ==
    WriteToNetwork(format(PacketData(
        IF state.st \in {"HandshakeReceived", "Connected"} THEN state.remote_idx ELSE 0,
        src)))

\* Peer::encapsulate: a Data packet tagged sender_idx = remote_idx
encapsulate(state, src) ==
    IF state.st \in {"HandshakeReceived", "Connected"}
    THEN WriteToNetwork(format(PacketData(state.remote_idx, src)))
    ELSE ActNone

\* a handshake sent whether or not the peer has an address
send_handshake_unaddressed(state, e, local_idx, sender_name) ==
    IF state = HsNone
    THEN [hs |-> HsSent,
          act |-> WriteToNetwork(format(HandshakeInit(sender_name, local_idx)))]
    ELSE [hs |-> state, act |-> ActNone]

\* Peer::send_handshake, under the write lock
send_handshake(state, e, local_idx, sender_name) ==
    IF state = HsNone /\ e.addr # NoAddr
    THEN [hs |-> HsSent,
          act |-> WriteToNetwork(format(HandshakeInit(sender_name, local_idx)))]
    ELSE [hs |-> state, act |-> ActNone]

\* a responder that keeps its own index for the remote one
handle_handshake_init_own(state, local_idx, msg) ==
    IF state.st = "None"
    THEN [hs |-> HsReceived(local_idx),
          act |-> WriteToNetwork(format(HandshakeResponse(local_idx, msg.assigned_idx)))]
    ELSE [hs |-> state, act |-> ActNone]

\* a responder that takes a HandshakeInit in any state
handle_handshake_init_again(state, local_idx, msg) ==
    [hs |-> HsReceived(msg.assigned_idx),
     act |-> WriteToNetwork(format(HandshakeResponse(local_idx, msg.assigned_idx)))]

\* a responder that fills the two fields of its response the other way round
handle_handshake_init_swapped(state, local_idx, msg) ==
    IF state.st = "None"
    THEN [hs |-> HsReceived(msg.assigned_idx),
          act |-> WriteToNetwork(format(HandshakeResponse(msg.assigned_idx, local_idx)))]
    ELSE [hs |-> state, act |-> ActNone]

\* Peer::handle_handshake_init, under the write lock
handle_handshake_init(state, local_idx, msg) ==
    IF state.st = "None"
    THEN [hs |-> HsReceived(msg.assigned_idx),
          act |-> WriteToNetwork(format(HandshakeResponse(local_idx, msg.assigned_idx)))]
    ELSE [hs |-> state, act |-> ActNone]

\* an initiator that takes the echoed field of the response for the remote
\* index
handle_handshake_response_echo(state, msg) ==
    IF state.st = "HandshakeSent"
    THEN [hs |-> HsConnected(msg.sender_idx), encap |-> TRUE]
    ELSE [hs |-> state, encap |-> FALSE]

\* a peer that takes a HandshakeResponse it never asked for
handle_handshake_response_unasked(state, msg) ==
    [hs |-> HsConnected(msg.assigned_idx), encap |-> TRUE]

\* an initiator that connects without the empty Data packet
handle_handshake_response_silent(state, msg) ==
    IF state.st = "HandshakeSent"
    THEN [hs |-> HsConnected(msg.assigned_idx), encap |-> FALSE]
    ELSE [hs |-> state, encap |-> FALSE]

\* Peer::handle_handshake_response up to drop(state); encap says whether
\* self.encapsulate(&[], dst) follows
handle_handshake_response(state, msg) ==
    IF state.st = "HandshakeSent"
    THEN [hs |-> HsConnected(msg.assigned_idx), encap |-> TRUE]
    ELSE [hs |-> state, encap |-> FALSE]

\* a handler that parses the payload whatever the handshake state
handle_packet_data_read_any(state) == "parse"

\* a handler that takes data in Connected only
handle_packet_data_read_connected(state) ==
    IF state.st = "Connected" THEN "parse" ELSE "none"

\* Peer::handle_packet_data, the match under the read lock
handle_packet_data_read(state) ==
    CASE state.st = "Connected" -> "parse"
      [] state.st = "HandshakeReceived" -> "upgrade"
      [] OTHER -> "none"

\* a write that does not store the index read under the read lock
handle_packet_data_write_other(held) == HsConnected(held + 1)

\* Peer::handle_packet_data, the state written under the write lock; held is
\* the remote_idx copied out before the read lock was dropped
handle_packet_data_write(held) == HsConnected(held)

\* a handler that never looks at the payload
handle_packet_data_action_none(msg) == ActNone

\* Peer::handle_packet_data, the second match
handle_packet_data_action(msg) ==
    IF Ipv4HeaderOk(msg.data)
    THEN WriteToTunn(msg.data, source_addr(msg.data))
    ELSE ActNone

\* Peer::handle_packet_data run by one thread from start to end
handle_packet_data(state, msg) ==
    LET way == handle_packet_data_read(state)
    IN  CASE way = "parse" -> [hs |-> state, act |-> handle_packet_data_action(msg)]
          [] way = "upgrade" -> [hs |-> handle_packet_data_write(state.remote_idx),
                                 act |-> handle_packet_data_action(msg)]
          [] OTHER -> [hs |-> state, act |-> ActNone]

\* Peer::handle_incoming_packet run by one thread from start to end
handle_incoming_packet(state, local_idx, packet) ==
    CASE packet.kind = "HandshakeInit" -> handle_handshake_init(state, local_idx, packet)
      [] packet.kind = "HandshakeResponse" ->
            LET res == handle_handshake_response(state, packet)
            IN  [hs |-> res.hs,
                 act |-> IF res.encap THEN encapsulate(res.hs, <<>>) ELSE ActNone]
      [] packet.kind = "Data" -> handle_packet_data(state, packet)
      [] OTHER -> [hs |-> state, act |-> ActNone]

\* ----------------------------------------------------------------- network
RouterAt(a) == {r \in Routers : CurAddr(r) = a}

IsRegistered(reg, fd) == \E e \in reg : e.fd = fd

\* a datagram from `from` reaches the host at address `to`: a connected
\* socket whose remote is the source takes it, else the default socket; an
\* arrival on a registered descriptor is an edge for epoll
Deliver(N, from, to, data) ==
    IF RouterAt(to) = {} THEN N
    ELSE LET r2 == CHOOSE r \in RouterAt(to) : TRUE
             d == [src |-> from, data |-> data]
             conn == {n \in 1..Len(N.socks[r2]) :
                        N.socks[r2][n].open /\ N.socks[r2][n].remote = from}
         IN  IF conn # {}
             THEN LET n == CHOOSE m \in conn : \A k \in conn : k <= m
                  IN  [N EXCEPT !.socks[r2][n].q = Append(@, d),
                                !.ready[r2] = IF IsRegistered(registered[r2], ConnFd(n))
                                              THEN @ \cup {ConnFd(n)} ELSE @]
             ELSE [N EXCEPT !.dq[r2] = Append(@, d),
                            !.ready[r2] = IF IsRegistered(registered[r2], UdpFd)
                                          THEN @ \cup {UdpFd} ELSE @]

Net == [socks |-> socks, dq |-> dq, ready |-> ready]

\* a send path that knows connected sockets only
send_over_udp_connected(N, r, i, data) ==
    LET e == ep[r][i]
    IN  IF e.conn # NoFd
        THEN Deliver(N, CurAddr(r), N.socks[r][e.conn.n].remote, data)
        ELSE N

\* Device::send_over_udp: the connected socket if there is one, else send_to
\* on the default socket to the recorded address, else nothing
send_over_udp(N, r, i, data) ==
    LET e == ep[r][i]
    IN  IF e.conn # NoFd
        THEN Deliver(N, CurAddr(r), N.socks[r][e.conn.n].remote, data)
        ELSE IF e.addr # NoAddr
        THEN Deliver(N, CurAddr(r), e.addr, data)
        ELSE N

\* ------------------------------------------------- descriptors and workers
\* the connected sockets somebody still holds an Arc of
Held(r, ep2, wk2) ==
    {ep2[r][i].conn : i \in PeerIdx(r)}
        \cup {wk2[r][w].conn : w \in WorkersOf(r)}
        \cup {wk2[r][w].fd : w \in WorkersOf(r)}

ClosedSock == [remote |-> NoAddr, q |-> <<>>, open |-> FALSE]

\* the last Arc dropped closes the socket, which leaves the interest list
DropUnheld(r, ep2, wk2, socks2) ==
    [socks2 EXCEPT ![r] = [n \in DOMAIN socks2[r] |->
        IF ConnFd(n) \in Held(r, ep2, wk2) THEN socks2[r][n] ELSE ClosedSock]]

StillOpen(r, ep2, wk2, fd) == fd.k # "conn" \/ fd \in Held(r, ep2, wk2)

\* threads that end one by one, the main thread like any other
LeaveAlone(r, w, how) == [wk EXCEPT ![r][w] = Idle(how)]

\* a thread that panics or returns; the main thread takes the process along
Leave(r, w, how) ==
    IF w = MainWorker
    THEN [wk EXCEPT ![r] = [v \in WorkersOf(r) |-> Idle(IF v = w THEN how ELSE "exited")]]
    ELSE [wk EXCEPT ![r][w] = Idle(how)]

Commit(r, ep2, wk2, socks2, reg2, rdy2) ==
    /\ ep' = ep2
    /\ wk' = wk2
    /\ socks' = DropUnheld(r, ep2, wk2, socks2)
    /\ registered' = [reg2 EXCEPT ![r] = {e \in @ : StillOpen(r, ep2, wk2, e.fd)}]
    /\ ready' = [rdy2 EXCEPT ![r] = {f \in @ : StillOpen(r, ep2, wk2, f)}]

W(r, w) == wk[r][w]
Panicked == {"panic_unwrap", "panic_assert", "panic_expect"}
Stopped == Panicked \cup {"exited"}
Running(r, w) == wk[r][w].pc \notin Stopped \cup {"init"}

RECURSIVE StartSends(_, _, _)
StartSends(N, r, i) ==
    IF i >= NumPeers(r) THEN N
    ELSE LET res == send_handshake(hs[r][i], ep[r][i], i, DeviceName(r))
         IN  StartSends(IF res.act.kind = "WriteToNetwork"
                        THEN send_over_udp(N, r, i, res.act.data) ELSE N, r, i + 1)

\* Device::start, then the event loops are spawned
Start(r) ==
    /\ \A w \in WorkersOf(r) : wk[r][w].pc = "init"
    /\ LET N == StartSends(Net, r, 0)
       IN  /\ hs' = [hs EXCEPT ![r] = [i \in PeerIdx(r) |->
                        send_handshake(hs[r][i], ep[r][i], i, DeviceName(r)).hs]]
           /\ registered' = [registered EXCEPT ![r] =
                        {[fd |-> UdpFd, token |-> TokenDisconnected],
                         [fd |-> TunFd, token |-> TokenTun]}]
           /\ ready' = [N.ready EXCEPT ![r] =
                        (IF dq[r] # <<>> THEN {UdpFd} ELSE {})
                            \cup (IF tunq[r] # <<>> THEN {TunFd} ELSE {})]
           /\ socks' = N.socks
           /\ dq' = N.dq
    /\ wk' = [wk EXCEPT ![r] = [w \in WorkersOf(r) |-> Idle("wait")]]
    /\ UNCHANGED <<pair, ep, tunq, tunw, addr, env>>

\* EPOLLIN alone: the descriptor stays ready while data is queued
LevelTriggered(rdy, fd) == rdy

\* EPOLLIN | EPOLLET: an event is reported once, to one caller of epoll_wait
EdgeTriggered(rdy, fd) == rdy \ {fd}

\* Poll::wait returns one ready descriptor's token; Device::event_loop
\* dispatches on it
PollWait(r, w) ==
    /\ W(r, w).pc = "wait"
    /\ \E e \in registered[r] :
        /\ e.fd \in ready[r]
        /\ LET rdy2 == [ready EXCEPT ![r] = EdgeTriggered(@, e.fd)]
               conn == IF e.token.id = "ConnectedPeer"
                       THEN ep[r][e.token.idx].conn ELSE NoFd
               wk2 == CASE e.token = TokenTun ->
                             [wk EXCEPT ![r][w].pc = "tun_recv", ![r][w].fd = TunFd]
                        [] e.token = TokenDisconnected ->
                             [wk EXCEPT ![r][w].pc = "udp_recv", ![r][w].fd = UdpFd]
                        [] OTHER ->
                             IF conn # NoFd
                             THEN [wk EXCEPT ![r][w].pc = "udp_recv", ![r][w].fd = conn]
                             ELSE wk
           IN  Commit(r, ep, wk2, socks, registered, rdy2)
    /\ UNCHANGED <<pair, hs, dq, tunq, tunw, addr, env>>

\* a handler that passes WouldBlock on as its error, which ends the thread
HandlerFails(r, w) == [wk EXCEPT ![r][w] = Idle("exited")]

\* recv returns WouldBlock: while let Ok(..) ends, the handler returns Ok(())
\* and the event loop waits again
HandlerReturns(r, w) == [wk EXCEPT ![r][w] = Idle("wait")]

QueueOf(r, fd) == IF fd = UdpFd THEN dq[r] ELSE socks[r][fd.n].q

\* a lookup that falls back to the first peer
ResolveFirst(r, packet) ==
    CASE packet.kind = "HandshakeInit" -> peers_by_name_get(r, packet.sender_name)
      [] packet.kind = "HandshakeResponse" -> peers_by_index_get(r, packet.sender_idx)
      [] packet.kind = "Data" -> peers_by_index_get(r, packet.sender_idx)
      [] OTHER -> 0

\* Device::handle_udp: recv_from, Packet::parse_from, the peer lookup
Resolve(r, packet) ==
    CASE packet.kind = "HandshakeInit" -> peers_by_name_get(r, packet.sender_name)
      [] packet.kind = "HandshakeResponse" -> peers_by_index_get(r, packet.sender_idx)
      [] packet.kind = "Data" -> peers_by_index_get(r, packet.sender_idx)
      [] OTHER -> NoIdx

UdpRecv(r, w) ==
    /\ W(r, w).pc = "udp_recv"
    /\ LET fd == W(r, w).fd
           q == QueueOf(r, fd)
       IN  IF q = <<>>
           THEN \* WouldBlock ends the loop, the handler returns
                /\ Commit(r, ep, HandlerReturns(r, w), socks, registered, ready)
                /\ dq' = dq
           ELSE LET d == Head(q)
                    packet == parse_from(d.data)
                    peer == Resolve(r, packet)
                IN  /\ IF fd = UdpFd
                       THEN dq' = [dq EXCEPT ![r] = Tail(@)] /\ socks' = socks
                       ELSE socks' = [socks EXCEPT ![r][fd.n].q = Tail(@)] /\ dq' = dq
                    /\ wk' = IF peer = NoIdx THEN [wk EXCEPT ![r][w].got = TRUE]
                             ELSE [wk EXCEPT ![r][w].pc = "set_endpoint",
                                             ![r][w].got = TRUE,
                                             ![r][w].src = d.src,
                                             ![r][w].pkt = packet,
                                             ![r][w].peer = peer]
                    /\ UNCHANGED <<ep, registered, ready>>
    /\ UNCHANGED <<pair, hs, tunq, tunw, addr, env>>

AfterEndpoint(r, changed) ==
    IF changed /\ use_connected_peer(r) THEN "connect" ELSE "handle"

\* Device::handle_udp: peer.set_endpoint(peer_addr)
SetEndpoint(r, w) ==
    /\ W(r, w).pc = "set_endpoint"
    /\ LET res == set_endpoint(ep[r][W(r, w).peer], W(r, w).src)
       IN  /\ ep' = [ep EXCEPT ![r][W(r, w).peer] = res.ep]
           /\ wk' = [wk EXCEPT ![r][w].changed = res.changed,
                               ![r][w].conn = res.conn,
                               ![r][w].pc = IF res.conn # NoFd THEN "poll_delete"
                                            ELSE AfterEndpoint(r, res.changed)]
    /\ UNCHANGED <<pair, hs, socks, dq, tunq, tunw, registered, ready, addr, env>>

\* Device::handle_udp: self.poll.delete(conn).expect("epoll delete"); drop(conn)
PollDelete(r, w) ==
    /\ W(r, w).pc = "poll_delete"
    /\ IF IsRegistered(registered[r], W(r, w).conn)
       THEN Commit(r, ep,
                   [wk EXCEPT ![r][w].conn = NoFd,
                              ![r][w].pc = AfterEndpoint(r, W(r, w).changed)],
                   socks,
                   [registered EXCEPT ![r] = {e \in @ : e.fd # W(r, w).conn}],
                   [ready EXCEPT ![r] = @ \ {W(r, w).conn}])
       ELSE Commit(r, ep, Leave(r, w, "panic_expect"), socks, registered, ready)
    /\ UNCHANGED <<pair, hs, dq, tunq, tunw, addr, env>>

\* Peer::connect_endpoint, under the endpoint's write lock
ConnectEndpoint(r, w) ==
    /\ W(r, w).pc = "connect"
    /\ LET i == W(r, w).peer
           n == Len(socks[r]) + 1
       IN  IF ep[r][i].addr = NoAddr
           THEN \* endpoint.addr.unwrap()
                Commit(r, ep, Leave(r, w, "panic_unwrap"), socks, registered, ready)
           ELSE IF ep[r][i].conn # NoFd
           THEN \* assert!(endpoint.conn.is_none())
                Commit(r, ep, Leave(r, w, "panic_assert"), socks, registered, ready)
           ELSE Commit(r, [ep EXCEPT ![r][i].conn = ConnFd(n)],
                       [wk EXCEPT ![r][w].conn = ConnFd(n), ![r][w].pc = "register"],
                       [socks EXCEPT ![r] = Append(@,
                            [remote |-> ep[r][i].addr, q |-> <<>>, open |-> TRUE])],
                       registered, ready)
    /\ UNCHANGED <<pair, hs, dq, tunq, tunw, addr, env>>

\* Device::handle_udp: self.poll.register_read(Token::Sock(ConnectedPeer(
\* peer.local_idx())), &*conn).expect("epoll add"); the Arc is dropped after
RegisterRead(r, w) ==
    /\ W(r, w).pc = "register"
    /\ LET fd == W(r, w).conn
       IN  Commit(r, ep,
                  [wk EXCEPT ![r][w].conn = NoFd, ![r][w].pc = "handle"],
                  socks,
                  [registered EXCEPT ![r] = @ \cup
                        {[fd |-> fd, token |-> TokenConnectedPeer(W(r, w).peer)]}],
                  [ready EXCEPT ![r] = IF socks[r][fd.n].q # <<>> THEN @ \cup {fd} ELSE @])
    /\ UNCHANGED <<pair, hs, dq, tunq, tunw, addr, env>>

\* Peer::handle_incoming_packet: the first critical section of the handler
\* the packet kind selects
Handle(r, w) ==
    /\ W(r, w).pc = "handle"
    /\ LET i == W(r, w).peer
           msg == W(r, w).pkt
       IN  CASE msg.kind = "HandshakeInit" ->
                  LET res == handle_handshake_init(hs[r][i], i, msg)
                  IN  /\ hs' = [hs EXCEPT ![r][i] = res.hs]
                      /\ wk' = [wk EXCEPT ![r][w].act = res.act, ![r][w].pc = "dispatch"]
             [] msg.kind = "HandshakeResponse" ->
                  LET res == handle_handshake_response(hs[r][i], msg)
                  IN  /\ hs' = [hs EXCEPT ![r][i] = res.hs]
                      /\ wk' = [wk EXCEPT ![r][w].act = ActNone,
                                          ![r][w].pc = IF res.encap THEN "encapsulate"
                                                       ELSE "dispatch"]
             [] OTHER ->
                  LET way == handle_packet_data_read(hs[r][i])
                  IN  /\ hs' = hs
                      /\ wk' = CASE way = "parse" ->
                                     [wk EXCEPT ![r][w].act = handle_packet_data_action(msg),
                                                ![r][w].pc = "dispatch"]
                                 [] way = "upgrade" ->
                                     [wk EXCEPT ![r][w].act = [kind |-> "Held",
                                                    remote_idx |-> hs[r][i].remote_idx],
                                                ![r][w].pc = "pd_write"]
                                 [] OTHER ->
                                     [wk EXCEPT ![r][w].act = ActNone,
                                                ![r][w].pc = "dispatch"]
    /\ UNCHANGED <<pair, ep, socks, dq, tunq, tunw, registered, ready, addr, env>>

\* Peer::handle_packet_data after drop(state): the write lock, the store of
\* Connected, then the second match
PdWrite(r, w) ==
    /\ W(r, w).pc = "pd_write"
    /\ hs' = [hs EXCEPT ![r][W(r, w).peer] =
                    handle_packet_data_write(W(r, w).act.remote_idx)]
    /\ wk' = [wk EXCEPT ![r][w].act = handle_packet_data_action(W(r, w).pkt),
                        ![r][w].pc = "dispatch"]
    /\ UNCHANGED <<pair, ep, socks, dq, tunq, tunw, registered, ready, addr, env>>

\* Peer::handle_handshake_response after drop(state): self.encapsulate(&[], dst)
EncapsulateEmpty(r, w) ==
    /\ W(r, w).pc = "encapsulate"
    /\ wk' = [wk EXCEPT ![r][w].act = encapsulate(hs[r][W(r, w).peer], <<>>),
                        ![r][w].pc = "dispatch"]
    /\ UNCHANGED <<pair, hs, ep, socks, dq, tunq, tunw, registered, ready, addr, env>>

NextRecv(r, w) == IF W(r, w).fd = TunFd THEN "tun_recv" ELSE "udp_recv"

\* a handler that returns after one packet instead of draining
ReloopOnce(r, w) == [wk EXCEPT ![r][w] = Idle("wait")]

\* while let Ok(..) = recv: the handler goes on with the same descriptor
Reloop(r, w) ==
    [wk EXCEPT ![r][w] = [Idle(NextRecv(r, w)) EXCEPT !.fd = W(r, w).fd,
                                                      !.got = W(r, w).got]]

\* the match on the Action in handle_udp, handle_tun and start
Dispatch(r, w) ==
    /\ W(r, w).pc = "dispatch"
    /\ LET a == W(r, w).act
           i == W(r, w).peer
           N == IF a.kind = "WriteToNetwork" THEN send_over_udp(Net, r, i, a.data) ELSE Net
       IN  /\ tunw' = IF a.kind = "WriteToTunn" /\ is_allowed_ip(r, i, a.src)
                      THEN [tunw EXCEPT ![r] = @ \cup {[peer |-> i, data |-> a.data]}]
                      ELSE tunw
           /\ socks' = N.socks
           /\ dq' = N.dq
           /\ ready' = N.ready
    /\ wk' = Reloop(r, w)
    /\ UNCHANGED <<pair, hs, ep, tunq, registered, addr, env>>

\* Device::handle_tun: iface.recv, the IPv4 header, peers_by_ip.get(dst),
\* peer.encapsulate
TunRecv(r, w) ==
    /\ W(r, w).pc = "tun_recv"
    /\ IF tunq[r] = <<>>
       THEN /\ wk' = HandlerReturns(r, w)
            /\ tunq' = tunq
       ELSE LET p == Head(tunq[r])
                peer == IF Ipv4HeaderOk(p)
                        THEN AllowedIpsGet(peers_by_ip(r), destination_addr(p))
                        ELSE NoIdx
            IN  /\ tunq' = [tunq EXCEPT ![r] = Tail(@)]
                /\ wk' = IF peer = NoIdx THEN [wk EXCEPT ![r][w].got = TRUE]
                         ELSE [wk EXCEPT ![r][w].peer = peer,
                                         ![r][w].got = TRUE,
                                         ![r][w].act = encapsulate(hs[r][peer], p),
                                         ![r][w].pc = "dispatch"]
    /\ UNCHANGED <<pair, hs, ep, socks, dq, tunw, registered, ready, addr, env>>

\* ------------------------------------------------------------- environment
\* the environment's budget of address changes, stray datagrams and failures
Budget == env.roams + env.strays + env.faults < MaxEnv

TunInputs(r) ==
    IF r = "A" THEN {Ipv4(0, 2), Ipv4(1, 3), Ipv4(0, 1), <<96>>}
    ELSE {Ipv4(2, 0), Ipv4(2, 3)}

\* the kernel hands the tun interface a packet routed to it
TunArrive(r) ==
    /\ env.tun < MaxTun
    /\ \E p \in TunInputs(r) :
        /\ tunq' = [tunq EXCEPT ![r] = Append(@, p)]
        /\ ready' = [ready EXCEPT ![r] =
                        IF IsRegistered(registered[r], TunFd) THEN @ \cup {TunFd} ELSE @]
    /\ env' = [env EXCEPT !.tun = @ + 1]
    /\ UNCHANGED <<pair, hs, ep, socks, dq, tunw, registered, wk, addr>>

\* a host's public address changes (a client behind NAT)
Roam(r) ==
    /\ Budget
    /\ \E n \in DOMAIN AddrsOf(r) :
        /\ n # addr[r]
        /\ addr' = [addr EXCEPT ![r] = n]
    /\ env' = [env EXCEPT !.roams = @ + 1]
    /\ UNCHANGED <<pair, hs, ep, socks, dq, tunq, tunw, registered, ready, wk>>

\* bytes that are no packet: an unknown discriminant, a truncated
\* HandshakeResponse, a HandshakeInit whose length prefix overruns the datagram
Malformed == { <<9, 0, 0, 0, 0>>, <<TagResponse, 0, 0>>, <<TagInit, 0, 0, 0, 0, 2, 65>> }

StrayAddr == "z"

\* well-formed packets nobody is waiting for: a HandshakeInit under a name
\* that is not configured, a HandshakeResponse and a Data packet with an index
\* past the peer table, and a HandshakeResponse and a Data packet under the
\* index of the peer that never started a handshake
Unexpected(r) ==
    LET quiet == peers_by_name_get(r, <<67>>)
    IN  {format(p) : p \in {HandshakeInit(<<90>>, 0),
                            HandshakeResponse(0, 7),
                            PacketData(7, Ipv4(0, 2)),
                            HandshakeResponse(2, quiet),
                            PacketData(quiet, Ipv4(0, 2))}}

\* somebody else's datagram arrives on the listening port
Stray(r) ==
    /\ Budget
    /\ \E b \in Malformed \cup Unexpected(r) :
        /\ dq' = [dq EXCEPT ![r] = Append(@, [src |-> StrayAddr, data |-> b])]
        /\ ready' = [ready EXCEPT ![r] =
                        IF IsRegistered(registered[r], UdpFd) THEN @ \cup {UdpFd} ELSE @]
    /\ env' = [env EXCEPT !.strays = @ + 1]
    /\ UNCHANGED <<pair, hs, ep, socks, tunq, tunw, registered, wk, addr>>

\* ------------------------------------------------------------ system errors
\* fault is the call that failed last, failed the calls that ever failed
Fault(kind) == [env EXCEPT !.faults = @ + 1, !.fault = kind, !.failed = @ \cup {kind}]

\* epoll_wait fails: while let Ok(token) = self.poll.wait() ends
WaitFail(r, w) ==
    /\ Budget
    /\ W(r, w).pc = "wait"
    /\ Commit(r, ep, Leave(r, w, "exited"), socks, registered, ready)
    /\ env' = Fault("wait")
    /\ UNCHANGED <<pair, hs, dq, tunq, tunw, addr>>

\* recv_from or iface.recv fails with data still queued: while let Ok(..)
\* ends and the handler returns Ok(())
RecvFail(r, w) ==
    /\ Budget
    /\ W(r, w).pc \in {"udp_recv", "tun_recv"}
    /\ Commit(r, ep, [wk EXCEPT ![r][w] = Idle("wait")], socks, registered, ready)
    /\ env' = Fault("recv")
    /\ UNCHANGED <<pair, hs, dq, tunq, tunw, addr>>

\* iface.send, conn.send or send_to fails: let _ = ...
WriteFail(r, w) ==
    /\ Budget
    /\ W(r, w).pc = "dispatch"
    /\ W(r, w).act.kind \in {"WriteToNetwork", "WriteToTunn"}
    /\ wk' = Reloop(r, w)
    /\ env' = Fault("write")
    /\ UNCHANGED <<pair, hs, ep, socks, dq, tunq, tunw, registered, ready, addr>>

\* new_udp_socket or connect fails in connect_endpoint: the Err arm logs
ConnectFail(r, w) ==
    /\ Budget
    /\ W(r, w).pc = "connect"
    /\ ep[r][W(r, w).peer].addr # NoAddr
    /\ ep[r][W(r, w).peer].conn = NoFd
    /\ wk' = [wk EXCEPT ![r][w].pc = "handle"]
    /\ env' = Fault("connect")
    /\ UNCHANGED <<pair, hs, ep, socks, dq, tunq, tunw, registered, ready, addr>>

\* epoll_ctl fails under .expect("epoll add") or .expect("epoll delete")
EpollCtlFail(r, w) ==
    /\ Budget
    /\ W(r, w).pc \in {"register", "poll_delete"}
    /\ Commit(r, ep, Leave(r, w, "panic_expect"), socks, registered, ready)
    /\ env' = Fault("epoll_ctl")
    /\ UNCHANGED <<pair, hs, dq, tunq, tunw, addr>>

Step(r, w) ==
    \/ PollWait(r, w)
    \/ UdpRecv(r, w)
    \/ SetEndpoint(r, w)
    \/ PollDelete(r, w)
    \/ ConnectEndpoint(r, w)
    \/ RegisterRead(r, w)
    \/ Handle(r, w)
    \/ PdWrite(r, w)
    \/ EncapsulateEmpty(r, w)
    \/ Dispatch(r, w)
    \/ TunRecv(r, w)

SysErr(r, w) ==
    \/ WaitFail(r, w)
    \/ RecvFail(r, w)
    \/ WriteFail(r, w)
    \/ ConnectFail(r, w)
    \/ EpollCtlFail(r, w)

Next ==
    \/ \E r \in Routers : Start(r)
    \/ \E r \in Routers : \E w \in WorkersOf(r) : Step(r, w)
    \/ \E r \in Routers : TunArrive(r)
    \/ \E r \in Routers : Roam(r)
    \/ \E r \in Routers : Stray(r)
    \/ \E r \in Routers : \E w \in WorkersOf(r) : SysErr(r, w)

Spec == Init /\ [][Next]_vars

\* ------------------------------------------------- two peers driven by hand
\* P is the record a client keeps of its server, Q the record the server
\* keeps of the client; the bytes one returns are handed to the other
MaxIdx == 3

PairPayloads == {<<>>, Ipv4(0, 2), Ipv4(1, 3), <<96>>}

device_vars == <<hs, ep, socks, dq, tunq, tunw, registered, ready, wk, addr, env>>

ActBytes(act) == IF act.kind = "WriteToNetwork" THEN act.data ELSE <<>>

InitPair ==
    /\ Devices
    /\ \E p, q \in 0..MaxIdx :
         pair = [pc |-> "start", from |-> "none", wire |-> <<>>,
                 P |-> [hs |-> HsNone, local_idx |-> p],
                 Q |-> [hs |-> HsNone, local_idx |-> q]]

\* P.send_handshake(name, dst), the endpoint address being known
PairSendHandshake ==
    /\ pair.pc = "start"
    /\ LET res == send_handshake(pair.P.hs, [addr |-> "q", conn |-> NoFd],
                                 pair.P.local_idx, <<80>>)
       IN  pair' = [pair EXCEPT !.pc = "sent", !.P.hs = res.hs,
                                !.wire = ActBytes(res.act), !.from = "P"]
    /\ UNCHANGED device_vars

\* Q.handle_incoming_packet on what P sent
PairFeedInit ==
    /\ pair.pc = "sent"
    /\ LET res == handle_incoming_packet(pair.Q.hs, pair.Q.local_idx, parse_from(pair.wire))
       IN  pair' = [pair EXCEPT !.pc = "received", !.Q.hs = res.hs,
                                !.wire = ActBytes(res.act), !.from = "Q"]
    /\ UNCHANGED device_vars

\* P.handle_incoming_packet on what Q answered
PairFeedResponse ==
    /\ pair.pc = "received"
    /\ LET res == handle_incoming_packet(pair.P.hs, pair.P.local_idx, parse_from(pair.wire))
       IN  pair' = [pair EXCEPT !.pc = "answered", !.P.hs = res.hs,
                                !.wire = ActBytes(res.act), !.from = "P"]
    /\ UNCHANGED device_vars

\* a Data packet one side encapsulates, handed to the other
PairFeedData ==
    /\ pair.pc = "answered"
    /\ \E data \in PairPayloads :
        \/ LET bytes == ActBytes(encapsulate(pair.P.hs, data))
               res == handle_incoming_packet(pair.Q.hs, pair.Q.local_idx, parse_from(bytes))
           IN  pair' = [pair EXCEPT !.pc = "done", !.Q.hs = res.hs,
                                    !.wire = bytes, !.from = "P"]
        \/ LET bytes == ActBytes(encapsulate(pair.Q.hs, data))
               res == handle_incoming_packet(pair.P.hs, pair.P.local_idx, parse_from(bytes))
           IN  pair' = [pair EXCEPT !.pc = "done", !.P.hs = res.hs,
                                    !.wire = bytes, !.from = "Q"]
    /\ UNCHANGED device_vars

NextPair ==
    \/ PairSendHandshake
    \/ PairFeedInit
    \/ PairFeedResponse
    \/ PairFeedData

SpecPair == InitPair /\ [][NextPair]_vars

\* ------------------------------------------------- one peer called by hand
\* a Peer as Peer::new leaves it, with or without a configured endpoint; its
\* public methods are called in any order on any packet, and last keeps the
\* state the call found, the packet it was given and the Action it returned
PeerName == <<80>>

PeerPackets ==
    {HandshakeInit(<<81>>, i) : i \in 0..MaxIdx}
    \cup {HandshakeResponse(i, j) : i, j \in 0..MaxIdx}
    \cup {PacketData(i, data) : i \in 0..MaxIdx, data \in PairPayloads}
    \cup {PacketEmpty}

InitPeer ==
    /\ Devices
    /\ \E l \in 0..MaxIdx, a \in {NoAddr, "q"} :
         pair = [pc |-> "peer",
                 peer |-> [hs |-> HsNone, local_idx |-> l,
                           endpoint |-> [addr |-> a, conn |-> NoFd]],
                 last |-> [op |-> "new", before |-> HsNone,
                           packet |-> PacketEmpty, act |-> ActNone]]

\* peer.send_handshake(name, dst)
PeerSendHandshake ==
    /\ pair.pc = "peer"
    /\ LET res == send_handshake(pair.peer.hs, pair.peer.endpoint,
                                 pair.peer.local_idx, PeerName)
       IN  pair' = [pair EXCEPT !.peer.hs = res.hs,
                        !.last = [op |-> "send_handshake", before |-> pair.peer.hs,
                                  packet |-> PacketEmpty, act |-> res.act]]
    /\ UNCHANGED device_vars

\* peer.handle_incoming_packet(packet, dst)
PeerHandle ==
    /\ pair.pc = "peer"
    /\ \E packet \in PeerPackets :
         LET res == handle_incoming_packet(pair.peer.hs, pair.peer.local_idx, packet)
         IN  pair' = [pair EXCEPT !.peer.hs = res.hs,
                          !.last = [op |-> "handle_incoming_packet",
                                    before |-> pair.peer.hs,
                                    packet |-> packet, act |-> res.act]]
    /\ UNCHANGED device_vars

\* peer.encapsulate(src, dst); packet keeps the payload it was given
PeerEncapsulate ==
    /\ pair.pc = "peer"
    /\ \E data \in PairPayloads :
         pair' = [pair EXCEPT
                      !.last = [op |-> "encapsulate", before |-> pair.peer.hs,
                                packet |-> PacketData(NoIdx, data),
                                act |-> encapsulate(pair.peer.hs, data)]]
    /\ UNCHANGED device_vars

NextPeer ==
    \/ PeerSendHandshake
    \/ PeerHandle
    \/ PeerEncapsulate

SpecPeer == InitPeer /\ [][NextPeer]_vars

\* ------------------------------------------------ one AllowedIps by hand
\* a table as AllowedIps::new leaves it, filled by up to MaxInserts calls of
\* insert and read by get; last keeps the call, what it returned and the
\* table it found
MaxInserts == 3

TableAddrs == 0..(Pow2(AddrBits) - 1)

TableData == {0, 1}

InitTable ==
    /\ Devices
    /\ pair = [pc |-> "table", table |-> {}, n |-> 0,
               last |-> [op |-> "new", ip |-> 0, cidr |-> 0, data |-> NoIdx,
                         ret |-> NoIdx, before |-> {}]]

\* table.insert(key, cidr, data)
TableInsert ==
    /\ pair.pc = "table"
    /\ pair.n < MaxInserts
    /\ \E ip \in TableAddrs, cidr \in 0..AddrBits, data \in TableData :
         LET res == AllowedIpsInsert(pair.table, ip, cidr, data)
         IN  pair' = [pair EXCEPT !.table = res.table, !.n = @ + 1,
                          !.last = [op |-> "insert", ip |-> ip, cidr |-> cidr,
                                    data |-> data, ret |-> res.prev,
                                    before |-> pair.table]]
    /\ UNCHANGED device_vars

\* table.get(key)
TableGet ==
    /\ pair.pc = "table"
    /\ \E ip \in TableAddrs :
         pair' = [pair EXCEPT
                      !.last = [op |-> "get", ip |-> ip, cidr |-> 0, data |-> NoIdx,
                                ret |-> AllowedIpsGet(pair.table, ip),
                                before |-> pair.table]]
    /\ UNCHANGED device_vars

NextTable ==
    \/ TableInsert
    \/ TableGet

SpecTable == InitTable /\ [][NextTable]_vars

\* ---------------------------------------------------- one packet by hand
\* a packet is formatted into a buffer and the bytes written are parsed
\* again; the indices are the ends and the byte borders of a 32-bit field,
\* up to the largest the checker's integers hold
WireIdx == {0, 1, 255, 256, 65536, 2147483647}

WireNames == {<<>>, <<65>>, <<TagData, 0>>}

WirePayloads == PairPayloads \cup {<<TagInit, 0, 0, 0, 0, 0>>}

WirePackets ==
    {HandshakeInit(name, i) : name \in WireNames, i \in WireIdx}
    \cup {HandshakeResponse(i, j) : i, j \in WireIdx}
    \cup {PacketData(i, data) : i \in WireIdx, data \in WirePayloads}

InitWire ==
    /\ Devices
    /\ \E m \in WirePackets :
         pair = [pc |-> "wire", step |-> "packet", m |-> m, bytes |-> <<>>,
                 out |-> PacketEmpty]

\* let n = packet.format(dst); &dst[..n]
WireFormat ==
    /\ pair.pc = "wire"
    /\ pair.step = "packet"
    /\ pair' = [pair EXCEPT !.step = "formatted", !.bytes = format(pair.m)]
    /\ UNCHANGED device_vars

\* Packet::parse_from(&buf[..nbytes])
WireParse ==
    /\ pair.pc = "wire"
    /\ pair.step = "formatted"
    /\ pair' = [pair EXCEPT !.step = "parsed", !.out = parse_from(pair.bytes)]
    /\ UNCHANGED device_vars

NextWire ==
    \/ WireFormat
    \/ WireParse

SpecWire == InitWire /\ [][NextWire]_vars

\* ------------------------------------------- the two locks of one Peer
\* Peer.handshake_state and Peer.endpoint are parking_lot RwLocks; several
\* threads call the Peer's methods at once.  Each method is the sequence of
\* acquisitions and releases its body makes; a lock hands itself to its
\* waiters in arrival order, a reader joining other readers and a writer
\* entering alone
Threads == {"t0", "t1", "t2"}

Locks == {"handshake_state", "endpoint"}

Acquire(l, m) == [do |-> "acquire", lock |-> l, mode |-> m]

Release(l) == [do |-> "release", lock |-> l, mode |-> "none"]

\* the write guard lives to the end of send_handshake; the endpoint guard of
\* `{ self.endpoint().addr.is_some() }` is taken while it is held
send_handshake_locks ==
    <<Acquire("handshake_state", "write"), Acquire("endpoint", "read"),
      Release("endpoint"), Release("handshake_state")>>

handle_handshake_init_locks ==
    <<Acquire("handshake_state", "write"), Release("handshake_state")>>

\* reads the handshake state for remote_idx
encapsulate_locks ==
    <<Acquire("handshake_state", "read"), Release("handshake_state")>>

\* drop(state) comes before self.encapsulate(&[], dst)
handle_handshake_response_locks ==
    <<Acquire("handshake_state", "write"), Release("handshake_state")>>
    \o encapsulate_locks

\* a handle_packet_data that keeps its read guard while asking for the write
handle_packet_data_locks_held ==
    <<Acquire("handshake_state", "read"), Acquire("handshake_state", "write"),
      Release("handshake_state"), Release("handshake_state")>>

\* the HandshakeReceived arm: read, drop(state), write
handle_packet_data_locks ==
    <<Acquire("handshake_state", "read"), Release("handshake_state"),
      Acquire("handshake_state", "write"), Release("handshake_state")>>

set_endpoint_locks ==
    <<Acquire("endpoint", "write"), Release("endpoint")>>

connect_endpoint_locks ==
    <<Acquire("endpoint", "write"), Release("endpoint")>>

\* send_over_udp reads addr and conn under peer.endpoint()
send_over_udp_locks ==
    <<Acquire("endpoint", "read"), Release("endpoint")>>

PeerOps ==
    {"send_handshake", "handle_handshake_init", "handle_handshake_response",
     "handle_packet_data", "encapsulate", "set_endpoint", "connect_endpoint",
     "send_over_udp"}

LockScript(op) ==
    CASE op = "send_handshake" -> send_handshake_locks
      [] op = "handle_handshake_init" -> handle_handshake_init_locks
      [] op = "handle_handshake_response" -> handle_handshake_response_locks
      [] op = "handle_packet_data" -> handle_packet_data_locks
      [] op = "encapsulate" -> encapsulate_locks
      [] op = "set_endpoint" -> set_endpoint_locks
      [] op = "connect_endpoint" -> connect_endpoint_locks
      [] op = "send_over_udp" -> send_over_udp_locks
      [] OTHER -> <<>>

InitLocks ==
    /\ Devices
    /\ pair = [pc |-> "locks",
               held |-> [l \in Locks |-> {}],
               queue |-> [l \in Locks |-> <<>>],
               th |-> [t \in Threads |-> [op |-> "idle", at |-> 1]]]

\* the acquisition or release a thread at position c is at
StepOf(c) ==
    LET script == LockScript(c.op)
    IN  IF c.at <= Len(script) THEN script[c.at]
        ELSE [do |-> "return", lock |-> "none", mode |-> "none"]

LockStep(t) == StepOf(pair.th[t])

\* .read() / .write(): a thread that reaches an acquisition parks on the lock
Park(queue, t, c) ==
    IF StepOf(c).do = "acquire"
    THEN [queue EXCEPT ![StepOf(c).lock] = Append(@, t)]
    ELSE queue

\* RwLock: readers share, a writer is alone
Compatible(l, m) ==
    IF m = "read" THEN \A h \in pair.held[l] : h[2] = "read"
    ELSE pair.held[l] = {}

\* a thread enters one of the Peer's methods
LockCall(t) ==
    /\ pair.pc = "locks"
    /\ pair.th[t].op = "idle"
    /\ \E op \in PeerOps :
         LET c == [op |-> op, at |-> 1]
         IN  pair' = [pair EXCEPT !.th[t] = c, !.queue = Park(@, t, c)]
    /\ UNCHANGED device_vars

\* the lock is handed to its first waiter
LockGrant(t) ==
    /\ pair.pc = "locks"
    /\ LockStep(t).do = "acquire"
    /\ LET l == LockStep(t).lock
           c == [pair.th[t] EXCEPT !.at = @ + 1]
       IN  /\ pair.queue[l] # <<>>
           /\ Head(pair.queue[l]) = t
           /\ Compatible(l, LockStep(t).mode)
           /\ pair' = [pair EXCEPT
                           !.queue = Park([@ EXCEPT ![l] = Tail(@)], t, c),
                           !.held[l] = @ \cup {<<t, LockStep(t).mode>>},
                           !.th[t] = c]
    /\ UNCHANGED device_vars

\* the guard is dropped; the method returns after its last release
LockRelease(t) ==
    /\ pair.pc = "locks"
    /\ LockStep(t).do = "release"
    /\ LET c == IF pair.th[t].at = Len(LockScript(pair.th[t].op))
                THEN [op |-> "idle", at |-> 1]
                ELSE [pair.th[t] EXCEPT !.at = @ + 1]
       IN  pair' = [pair EXCEPT
                        !.held[LockStep(t).lock] = {h \in @ : h[1] # t},
                        !.queue = Park(@, t, c),
                        !.th[t] = c]
    /\ UNCHANGED device_vars

NextLocks ==
    \E t \in Threads :
        \/ LockCall(t)
        \/ LockGrant(t)
        \/ LockRelease(t)

\* a thread inside a method keeps running; nothing makes it enter one
SpecLocks ==
    /\ InitLocks
    /\ [][NextLocks]_vars
    /\ \A t \in Threads :
         WF_vars(LockGrant(t) \/ LockRelease(t))

\* ------------------------------------------------- main and the peer lists
\* main builds the Device from the configuration, one add_peer per entry,
\* then start() and the event loops, which only look peers up: the Device is
\* shared behind an Arc and every method takes &self
MaxPeers == 3

ConfNames == {<<65>>, <<66>>, <<67>>}

NoPeer == [local_idx |-> NoIdx, made |-> 0]

\* an add_peer that counts positions from one
add_peer_local_idx_next(peers_by_index) == Len(peers_by_index) + 1

\* the local_idx of the next peer: its position in the Vec
add_peer_local_idx(peers_by_index) == Len(peers_by_index)

InitMain ==
    /\ Devices
    /\ \E n \in 0..MaxPeers : \E conf \in [1..n -> ConfNames] :
         pair = [pc |-> "main", conf |-> conf, at |-> "configure",
                 peers_by_name |-> [name \in ConfNames |-> NoPeer],
                 peers_by_index |-> <<>>,
                 last |-> [op |-> "new", found |-> NoPeer]]

\* dev.add_peer(peer_name, peer) for the next entry of the configuration
MainAddPeer ==
    /\ pair.pc = "main"
    /\ pair.at = "configure"
    /\ Len(pair.peers_by_index) < Len(pair.conf)
    /\ LET n == Len(pair.peers_by_index) + 1
           peer == [local_idx |-> add_peer_local_idx(pair.peers_by_index), made |-> n]
       IN  pair' = [pair EXCEPT !.peers_by_index = Append(@, peer),
                        !.peers_by_name[pair.conf[n]] = peer,
                        !.last = [op |-> "add_peer", found |-> peer]]
    /\ UNCHANGED device_vars

\* dev.start()?; the threads are spawned and main enters event_loop
MainStart ==
    /\ pair.pc = "main"
    /\ pair.at = "configure"
    /\ Len(pair.peers_by_index) = Len(pair.conf)
    /\ pair' = [pair EXCEPT !.at = "wait", !.last = [op |-> "start", found |-> NoPeer]]
    /\ UNCHANGED device_vars

\* handle_udp: self.peers_by_name.get(msg.sender_name.as_slice())
MainGetByName ==
    /\ pair.pc = "main"
    /\ pair.at = "wait"
    /\ \E name \in ConfNames :
         pair' = [pair EXCEPT !.last = [op |-> "peers_by_name.get",
                                        found |-> pair.peers_by_name[name]]]
    /\ UNCHANGED device_vars

\* handle_udp: self.peers_by_index.get(msg.sender_idx as usize)
MainGetByIndex ==
    /\ pair.pc = "main"
    /\ pair.at = "wait"
    /\ \E idx \in 0..MaxPeers :
         pair' = [pair EXCEPT !.last = [op |-> "peers_by_index.get",
                                        found |-> IF idx < Len(pair.peers_by_index)
                                                  THEN pair.peers_by_index[idx + 1]
                                                  ELSE NoPeer]]
    /\ UNCHANGED device_vars

NextMain ==
    \/ MainAddPeer
    \/ MainStart
    \/ MainGetByName
    \/ MainGetByIndex

SpecMain == InitMain /\ [][NextMain]_vars

\* --------------------------------------- two devices that both initiate
\* X and Y are each configured with the other's endpoint: Device::start on
\* either side calls send_handshake on its record of the other, and the
\* event loop handles what arrives only after start.  inbox holds the
\* datagrams on their way to a side; a datagram may be lost
Sides == {"X", "Y"}

Other(side) == IF side = "X" THEN "Y" ELSE "X"

SideName(side) == IF side = "X" THEN <<88>> ELSE <<89>>

InitBoth ==
    /\ Devices
    /\ \E x, y \in 0..MaxIdx :
         pair = [pc |-> "both",
                 peer |-> [side \in Sides |->
                             [hs |-> HsNone,
                              local_idx |-> IF side = "X" THEN x ELSE y,
                              started |-> FALSE, seen |-> 0]],
                 inbox |-> [side \in Sides |-> <<>>]]

\* Device::start: peer.send_handshake(self.name, ..), then send_over_udp
BothStart(side) ==
    /\ pair.pc = "both"
    /\ ~pair.peer[side].started
    /\ LET res == send_handshake(pair.peer[side].hs, [addr |-> "q", conn |-> NoFd],
                                 pair.peer[side].local_idx, SideName(side))
       IN  pair' = [pair EXCEPT
                        !.peer[side].hs = res.hs,
                        !.peer[side].started = TRUE,
                        !.inbox[Other(side)] =
                            IF res.act.kind = "WriteToNetwork"
                            THEN Append(@, res.act.data) ELSE @]
    /\ UNCHANGED device_vars

\* Device::handle_udp on the next datagram: handle_incoming_packet, and the
\* action it returns sent back
BothHandle(side) ==
    /\ pair.pc = "both"
    /\ pair.peer[side].started
    /\ pair.inbox[side] # <<>>
    /\ LET res == handle_incoming_packet(pair.peer[side].hs, pair.peer[side].local_idx,
                                         parse_from(Head(pair.inbox[side])))
           back == IF res.act.kind = "WriteToNetwork"
                   THEN Append(pair.inbox[Other(side)], res.act.data)
                   ELSE pair.inbox[Other(side)]
       IN  pair' = [pair EXCEPT
                        !.peer[side].hs = res.hs,
                        !.peer[side].seen = @ + 1,
                        !.inbox = [@ EXCEPT ![Other(side)] = back,
                                            ![side] = Tail(pair.inbox[side])]]
    /\ UNCHANGED device_vars

\* a datagram is lost on the way
BothLose(side) ==
    /\ pair.pc = "both"
    /\ pair.inbox[side] # <<>>
    /\ pair' = [pair EXCEPT !.inbox[side] = Tail(@)]
    /\ UNCHANGED device_vars

NextBoth ==
    \E side \in Sides :
        \/ BothStart(side)
        \/ BothHandle(side)
        \/ BothLose(side)

SpecBoth == InitBoth /\ [][NextBoth]_vars

\* ------------------------------------------- an initiator that restarts
\* I is configured with R's endpoint, R learns I's address from the
\* handshake.  I's process may end once and be started again: its record is
\* built anew by Peer::new, its socket and what was queued on it are gone;
\* found keeps the state R's record was in at that moment
Ends == {"I", "R"}

OtherEnd(e) == IF e = "I" THEN "R" ELSE "I"

InitRestart ==
    /\ Devices
    /\ \E i, r \in 0..MaxIdx :
         pair = [pc |-> "restart",
                 peer |-> [e \in Ends |->
                             [hs |-> HsNone,
                              local_idx |-> IF e = "I" THEN i ELSE r,
                              started |-> e = "R"]],
                 inbox |-> [e \in Ends |-> <<>>],
                 restarted |-> FALSE,
                 found |-> HsNone]

\* Device::start on I: peer.send_handshake, then send_over_udp
RestartStart ==
    /\ pair.pc = "restart"
    /\ ~pair.peer["I"].started
    /\ LET res == send_handshake(pair.peer["I"].hs, [addr |-> "r", conn |-> NoFd],
                                 pair.peer["I"].local_idx, <<73>>)
       IN  pair' = [pair EXCEPT
                        !.peer["I"].hs = res.hs,
                        !.peer["I"].started = TRUE,
                        !.inbox["R"] = IF res.act.kind = "WriteToNetwork"
                                       THEN Append(@, res.act.data) ELSE @]
    /\ UNCHANGED device_vars

\* Device::handle_udp on the next datagram, the returned action sent back
RestartHandle(e) ==
    /\ pair.pc = "restart"
    /\ pair.peer[e].started
    /\ pair.inbox[e] # <<>>
    /\ LET res == handle_incoming_packet(pair.peer[e].hs, pair.peer[e].local_idx,
                                         parse_from(Head(pair.inbox[e])))
           back == IF res.act.kind = "WriteToNetwork"
                   THEN Append(pair.inbox[OtherEnd(e)], res.act.data)
                   ELSE pair.inbox[OtherEnd(e)]
       IN  pair' = [pair EXCEPT
                        !.peer[e].hs = res.hs,
                        !.inbox = [@ EXCEPT ![OtherEnd(e)] = back,
                                            ![e] = Tail(pair.inbox[e])]]
    /\ UNCHANGED device_vars

\* a datagram is lost on the way
RestartLose(e) ==
    /\ pair.pc = "restart"
    /\ pair.inbox[e] # <<>>
    /\ pair' = [pair EXCEPT !.inbox[e] = Tail(@)]
    /\ UNCHANGED device_vars

\* I's process ends; main will build the Device again from the same file
RestartCrash ==
    /\ pair.pc = "restart"
    /\ pair.peer["I"].started
    /\ ~pair.restarted
    /\ pair' = [pair EXCEPT !.peer["I"].hs = HsNone,
                            !.peer["I"].started = FALSE,
                            !.inbox["I"] = <<>>,
                            !.restarted = TRUE,
                            !.found = pair.peer["R"].hs]
    /\ UNCHANGED device_vars

NextRestart ==
    \/ RestartStart
    \/ RestartCrash
    \/ \E e \in Ends : RestartHandle(e)
    \/ \E e \in Ends : RestartLose(e)

SpecRestart == InitRestart /\ [][NextRestart]_vars

\* -------------------------------------------------- the epoll event word
\* a u32 is its two 16-bit halves <<low, high>>, a u64 its four, low first;
\* an i32 is an integer in -2^31 .. 2^31 - 1
Half == 65536

\* x as i32, the same 32 bits read as two's complement
U32AsI32(x) ==
    IF x[2] >= Half \div 2 THEN (x[2] - Half) * Half + x[1] ELSE x[2] * Half + x[1]

\* n as u32
I32AsU32(n) == <<n % Half, (n \div Half) % Half>>

\* a widening that keeps the sign: n as i64 as u64
I32AsU64Signed(n) ==
    <<n % Half, (n \div Half) % Half,
      IF n < 0 THEN Half - 1 ELSE 0, IF n < 0 THEN Half - 1 ELSE 0>>

\* n as u32 as u64: the upper half is zero
I32AsU64(n) == <<I32AsU32(n)[1], I32AsU32(n)[2], 0, 0>>

RECURSIVE BitOr16(_, _, _)
BitOr16(a, b, bits) ==
    IF bits = 0 THEN 0
    ELSE (IF a % 2 = 1 \/ b % 2 = 1 THEN 1 ELSE 0)
         + 2 * BitOr16(a \div 2, b \div 2, bits - 1)

BitOr64(v, w) == [k \in 1..4 |-> BitOr16(v[k], w[k], 16)]

\* n << 32 for a small n
Shl32(n) == <<0, 0, n, 0>>

\* value >> 32
Shr32(v) == <<v[3], v[4], 0, 0>>

UnknownToken == [tag |-> "UnknownToken"]

\* impl From<SockID> for i32: the marker for Disconnected, the index's bits
\* for ConnectedPeer
SockIDInto(marker, id) ==
    IF id.id = "Disconnected" THEN marker ELSE U32AsI32(id.idx)

\* impl From<i32> for SockID
SockIDFrom(marker, n) ==
    IF n = marker THEN TokenDisconnected ELSE TokenConnectedPeer(I32AsU32(n))

\* impl From<Token<ID>> for u64
TokenInto(marker, token) ==
    IF token = TokenTun THEN Shl32(1)
    ELSE BitOr64(Shl32(2), I32AsU64(SockIDInto(marker, token)))

\* impl TryFrom<u64> for Token<ID>
TokenTryFrom(marker, value) ==
    LET tag == Shr32(value)
    IN  IF tag = <<1, 0, 0, 0>> THEN TokenTun
        ELSE IF tag = <<2, 0, 0, 0>>
        THEN SockIDFrom(marker, U32AsI32(<<value[1], value[2]>>))
        ELSE UnknownToken

\* local_idx values at the ends and byte borders of a u32
TokenIdx ==
    {<<0, 0>>, <<1, 0>>, <<255, 0>>, <<256, 0>>, <<65535, 0>>, <<0, 1>>,
     <<65535, 32767>>, <<0, 32768>>, <<65534, 65535>>, <<65535, 65535>>}

\* the i32 kept for Disconnected: -1 or i32::MIN
TokenMarkers == {-1, -2147483647 - 1}

Tokens == {TokenTun, TokenDisconnected} \cup {TokenConnectedPeer(x) : x \in TokenIdx}

TokenTags == {<<0, 0>>, <<1, 0>>, <<2, 0>>, <<3, 0>>, <<1, 1>>, <<2, 65535>>}

InitToken ==
    /\ Devices
    /\ \E marker \in TokenMarkers :
         \/ \E token \in Tokens :
              pair = [pc |-> "token", step |-> "token", marker |-> marker,
                      token |-> token, value |-> <<0, 0, 0, 0>>, out |-> UnknownToken]
         \/ \E tag \in TokenTags, low \in TokenIdx :
              pair = [pc |-> "token", step |-> "event", marker |-> marker,
                      token |-> UnknownToken,
                      value |-> <<low[1], low[2], tag[1], tag[2]>>,
                      out |-> UnknownToken]

\* register_read: EpollEvent::new(EPOLL_FLAGS, token.into())
TokenEncode ==
    /\ pair.pc = "token"
    /\ pair.step = "token"
    /\ pair' = [pair EXCEPT !.step = "event",
                            !.value = TokenInto(pair.marker, pair.token)]
    /\ UNCHANGED device_vars

\* Poll::wait: Token::try_from(events[0].data())
TokenDecode ==
    /\ pair.pc = "token"
    /\ pair.step = "event"
    /\ pair' = [pair EXCEPT !.step = "decoded",
                            !.out = TokenTryFrom(pair.marker, pair.value)]
    /\ UNCHANGED device_vars

NextToken ==
    \/ TokenEncode
    \/ TokenDecode

SpecToken == InitToken /\ [][NextToken]_vars

\* --------------------------------------------------------------- scheduling
\* every thread of a started device keeps running its loop, and every
\* configured device is started
SpecLive ==
    /\ Spec
    /\ \A r \in Routers : WF_vars(Start(r))
    /\ \A r \in Routers : \A w \in WorkersOf(r) : WF_vars(Step(r, w))

\* ------------------------------------------------------------------- claims
\* the device whose [Interface] name a peer record carries, if it is modelled
DeviceOf(r, i) == {r2 \in Routers : DeviceName(r2) = PeerConf(r)[i + 1].name}

Learned(state) == state.st \in {"HandshakeReceived", "Connected"}

AllowedSrc(r, i, src) == \E e \in PeerConf(r)[i + 1].allowed_ips : InRange(src, e)

InLoop(r, w) == wk[r][w].pc \notin Stopped \cup {"init", "wait"}

\* every thread is where it was and holds what it held; a thread whose recv
\* returned a datagram has left its first iteration
SameWork ==
    \A r \in Routers : \A w \in WorkersOf(r) :
        \/ wk'[r][w] = wk[r][w]
        \/ wk'[r][w] = [wk[r][w] EXCEPT !.got = TRUE]

\* C1: after P.send_handshake, Q.handle_incoming_packet on P's
\* bytes and P.handle_incoming_packet on Q's answer, P is Connected with
\* remote_idx = Q.local_idx; a Data packet from P handed to Q leaves Q
\* Connected with remote_idx = P.local_idx, a Data packet from Q handed to P
\* leaves Q in HandshakeReceived with remote_idx = P.local_idx.
HandshakeRoundTrip ==
    pair.pc = "done" =>
        /\ pair.P.hs = HsConnected(pair.Q.local_idx)
        /\ pair.Q.hs = IF pair.from = "P" THEN HsConnected(pair.P.local_idx)
                       ELSE HsReceived(pair.P.local_idx)

\* C1, as written: whichever side the final Data packet comes from, both
\* records end Connected with each other's local_idx.
HandshakeRoundTripEitherSide ==
    pair.pc = "done" =>
        /\ pair.P.hs = HsConnected(pair.Q.local_idx)
        /\ pair.Q.hs = HsConnected(pair.P.local_idx)

HandshakeRoundTripDone ==
    /\ pair.pc = "done"
    /\ pair.from = "P"
    /\ pair.P.local_idx # pair.Q.local_idx
    /\ pair.P.hs = HsConnected(pair.Q.local_idx)
    /\ pair.Q.hs = HsConnected(pair.P.local_idx)

\* C2: whenever a device's record of a peer is HandshakeReceived or
\* Connected, its remote_idx is the local_idx of the peer's record of that
\* device.
RemoteIdxAgrees ==
    \A r \in Routers : \A i \in PeerIdx(r) : \A r2 \in DeviceOf(r, i) :
        Learned(hs[r][i]) => hs[r][i].remote_idx = peers_by_name_get(r2, DeviceName(r))

RemoteIdxLearned ==
    /\ hs["A"][1] = HsConnected(0)
    /\ hs["B"][0] = HsConnected(1)

SourceFiltered ==
    [][\A r \in Routers :
        /\ \A x \in tunw'[r] \ tunw[r] :
            Ipv4HeaderOk(x.data) /\ AllowedSrc(r, x.peer, source_addr(x.data))
        /\ \A w \in WorkersOf(r) :
            (/\ wk[r][w].pc = "dispatch"
             /\ wk'[r][w].pc = "udp_recv"
             /\ wk[r][w].act.kind = "WriteToTunn"
             /\ ~AllowedSrc(r, wk[r][w].peer, wk[r][w].act.src))
            => tunw' = tunw /\ dq' = dq /\ socks' = socks]_vars

SourceOutsideRange ==
    \E w \in WorkersOf("B") :
        /\ wk["B"][w].pc = "dispatch"
        /\ wk["B"][w].act.kind = "WriteToTunn"
        /\ wk["B"][w].peer = 0
        /\ hs["B"][0].st = "Connected"
        /\ ~AllowedSrc("B", 0, wk["B"][w].act.src)

\* C5: when no datagram is lost (no address change, no failed system call)
\* and every thread keeps running, the record of the device that knows the
\* other's address and the record of the one that does not both reach
\* Connected, whether or not the tunnel ever carries a packet.
Reliable == env.roams = 0 /\ env.faults = 0

BothConnected == hs["A"][1].st = "Connected" /\ hs["B"][0].st = "Connected"

EventuallyConnected == <>(BothConnected \/ ~Reliable)

ConnectedWithoutTraffic == BothConnected /\ Reliable /\ env.tun = 0

\* C6: a record in HandshakeReceived or Connected with remote_idx r is left
\* by every step of every worker either as it is or Connected with the same
\* r, and each worker that saw HandshakeReceived under the read lock leaves
\* it Connected with that r when it has taken the write lock, however many
\* workers do so and whatever else ran in between.
PromotionKeepsIndex ==
    [][\A r \in Routers :
        /\ \A i \in PeerIdx(r) :
            Learned(hs[r][i])
            => hs'[r][i] \in {hs[r][i], HsConnected(hs[r][i].remote_idx)}
        /\ \A w \in WorkersOf(r) :
            (wk[r][w].pc = "pd_write" /\ wk'[r][w].pc = "dispatch")
            => /\ Learned(hs[r][wk[r][w].peer])
               /\ hs'[r][wk[r][w].peer] = HsConnected(hs[r][wk[r][w].peer].remote_idx)]_vars

PromotedTwice ==
    /\ hs["B"][0] = HsConnected(1)
    /\ \E w \in WorkersOf("B") : wk["B"][w].pc = "pd_write" /\ wk["B"][w].peer = 0

\* C7: at most one socket of a peer is registered with the poll and no
\* worker fails the assertion of connect_endpoint.
OneConnectedSocket ==
    \A r \in Routers :
        /\ \A i \in PeerIdx(r) :
            Cardinality({e \in registered[r] : e.token = TokenConnectedPeer(i)}) <= 1
        /\ \A w \in WorkersOf(r) : wk[r][w].pc # "panic_assert"

AssertionFailed ==
    /\ env.faults = 0
    /\ \E w \in WorkersOf("B") : wk["B"][w].pc = "panic_assert"

\* C8: a step wakes at most one worker of a device, and the
\* descriptor it is woken for is ready before the step and not after; two
\* workers can be in the drain loop of the same descriptor, the second one
\* woken by a datagram that arrived while the first was draining.
WokenOnce ==
    [][\A r \in Routers :
        LET woken == {w \in WorkersOf(r) :
                        wk[r][w].pc = "wait" /\ wk'[r][w].pc \in {"udp_recv", "tun_recv"}}
        IN  /\ Cardinality(woken) <= 1
            /\ \A w \in woken :
                \E e \in registered[r] :
                    /\ e.fd \in ready[r]
                    /\ e.fd \notin ready'[r]
                    /\ e.token.tag = "Tun" <=> wk'[r][w].pc = "tun_recv"]_vars

\* C8, as written: no two workers are in the drain loop of one descriptor.
NoConcurrentDrain ==
    \A r \in Routers : \A w1, w2 \in WorkersOf(r) :
        (w1 # w2 /\ InLoop(r, w1) /\ InLoop(r, w2)) => wk[r][w1].fd # wk[r][w2].fd

ConcurrentDrain ==
    /\ wk["B"]["w0"].pc = "udp_recv"
    /\ wk["B"]["w1"].pc \in {"set_endpoint", "handle", "dispatch"}
    /\ wk["B"]["w0"].fd = UdpFd
    /\ wk["B"]["w1"].fd = UdpFd

\* C9: a failed read, write or connect stops no worker; a failed
\* epoll add or delete makes the calling worker panic; a failed wait ends the
\* loop of the worker that called it, which on a spawned thread leaves the
\* other workers as they are and on the main thread ends the process and so
\* every worker.
FailureOutcomes ==
    [][env'.faults = env.faults + 1 =>
        CASE env'.fault \in {"recv", "write", "connect"} ->
                \A r \in Routers : \A w \in WorkersOf(r) :
                    wk[r][w].pc \notin Stopped => wk'[r][w].pc \notin Stopped
          [] env'.fault = "epoll_ctl" ->
                \E r \in Routers : \E w \in WorkersOf(r) :
                    /\ wk[r][w].pc \in {"register", "poll_delete"}
                    /\ wk'[r][w].pc = "panic_expect"
          [] OTHER ->
                \E r \in Routers : \E w \in WorkersOf(r) :
                    /\ wk[r][w].pc = "wait"
                    /\ wk'[r][w].pc = "exited"
                    /\ IF w = MainWorker
                       THEN \A v \in WorkersOf(r) : wk'[r][v].pc \in Stopped
                       ELSE \A v \in WorkersOf(r) \ {w} : wk'[r][v] = wk[r][v]]_vars

\* C9, as written: a worker stops only in a failed wait of its own, and no
\* other worker stops with it.
OnlyWaitStops ==
    [][\A r \in Routers : \A w \in WorkersOf(r) :
        (wk[r][w].pc \notin Stopped /\ wk'[r][w].pc \in Stopped)
        => /\ wk[r][w].pc = "wait"
           /\ env'.faults = env.faults + 1
           /\ env'.fault = "wait"
           /\ \A v \in WorkersOf(r) \ {w} : wk'[r][v] = wk[r][v]]_vars

EpollFailurePanics ==
    /\ env.fault = "epoll_ctl"
    /\ wk["B"]["w1"].pc = "panic_expect"
    /\ wk["B"]["w0"].pc \notin Stopped

\* C10: when the drain loop takes a datagram that does not parse, nothing
\* changes but the queue it came from: no handshake state, no endpoint, no
\* socket, nothing sent, nothing written to the tunnel, and the worker is
\* still at recv_from.
DecodeFailureDropped ==
    [][\A r \in Routers :
        (/\ dq[r] # <<>>
         /\ parse_from(Head(dq[r]).data) = ParseErr
         /\ dq'[r] = Tail(dq[r]))
        => /\ dq' = [dq EXCEPT ![r] = Tail(@)]
           /\ UNCHANGED <<hs, ep, socks, tunq, tunw, registered, ready>>
           /\ SameWork]_vars

StrayDropped ==
    /\ env.strays = 1
    /\ wk["A"]["w0"].pc = "init"
    /\ dq["A"] = <<>>
    /\ dq["B"] = <<>>
    /\ hs["B"][0] = HsNone
    /\ ep["B"][0].addr = NoAddr
    /\ \E w \in WorkersOf("B") : wk["B"][w].pc = "udp_recv" /\ wk["B"][w].fd = UdpFd

\* the peers whose allowed ranges hold the longest prefix that covers dst
LongestMatch(r, dst) ==
    {i \in PeerIdx(r) :
        \E e \in PeerConf(r)[i + 1].allowed_ips :
            /\ InRange(dst, e)
            /\ \A j \in PeerIdx(r) : \A f \in PeerConf(r)[j + 1].allowed_ips :
                    InRange(dst, f) => f.cidr <= e.cidr}

\* the destination written in the header of an IPv4 packet
DstOf(p) == {dst \in 0..(Pow2(AddrBits) - 1) : \E src \in 0..(Pow2(AddrBits) - 1) : p = Ipv4(src, dst)}

\* the Action handle_tun holds for packet p routed to peer i
TunAction(r, i, p, act) ==
    IF Learned(hs[r][i])
    THEN /\ act.kind = "WriteToNetwork"
         /\ parse_from(act.data) = PacketData(hs[r][i].remote_idx, p)
    ELSE act = ActNone

\* handle_tun takes one packet off the tunnel
TunRouted(r) ==
    LET p == Head(tunq[r])
        m == UNION {LongestMatch(r, dst) : dst \in DstOf(p)}
    IN  /\ UNCHANGED <<hs, ep, socks, dq, tunw>>
        /\ IF m = {} THEN SameWork
           ELSE \E w \in WorkersOf(r) : \E i \in m :
                  /\ wk[r][w].pc = "tun_recv"
                  /\ TunAction(r, i, p, wk'[r][w].act)
                  /\ wk' = [wk EXCEPT ![r][w].pc = "dispatch", ![r][w].peer = i,
                                      ![r][w].act = wk'[r][w].act,
                                      ![r][w].got = TRUE]

\* handle_tun acts on the Action it holds, no send failing
TunSent(r, w) ==
    LET a == wk[r][w].act
        e == ep[r][wk[r][w].peer]
        to == IF e.conn # NoFd THEN socks[r][e.conn.n].remote ELSE e.addr
        d == [src |-> CurAddr(r), data |-> a.data]
    IN  /\ UNCHANGED <<hs, ep, tunw>>
        /\ IF a.kind = "WriteToNetwork" /\ RouterAt(to) # {}
           THEN \E r2 \in RouterAt(to) :
                  \/ dq' = [dq EXCEPT ![r2] = Append(@, d)] /\ socks' = socks
                  \/ /\ dq' = dq
                     /\ \E n \in 1..Len(socks[r2]) :
                          /\ socks[r2][n].remote = CurAddr(r)
                          /\ socks' = [socks EXCEPT ![r2][n].q = Append(@, d)]
           ELSE dq' = dq /\ socks' = socks

Queued(r) ==
    {dq[r][k] : k \in 1..Len(dq[r])}
        \cup UNION {{socks[r][n].q[k] : k \in 1..Len(socks[r][n].q)} :
                        n \in 1..Len(socks[r])}

SentBy(s) == {AddrsOf(s)[k] : k \in DOMAIN AddrsOf(s)}

\* C12: every Data packet device s has sent to device r carries a sender_idx
\* that r's index lookup resolves to r's record of s and to no other record,
\* whether the packet waits on a socket of r or is held by a thread of r.
DataResolvesToSender ==
    \A r \in Routers : \A s \in Routers \ {r} :
        /\ \A d \in Queued(r) :
             (d.src \in SentBy(s) /\ parse_from(d.data).kind = "Data")
                => /\ Resolve(r, parse_from(d.data)) # NoIdx
                   /\ Resolve(r, parse_from(d.data)) = peers_by_name_get(r, DeviceName(s))
        /\ \A w \in WorkersOf(r) :
             (/\ wk[r][w].pc \in {"set_endpoint", "poll_delete", "connect",
                                  "register", "handle", "pd_write"}
              /\ wk[r][w].src \in SentBy(s) /\ wk[r][w].pkt.kind = "Data")
                => wk[r][w].peer = peers_by_name_get(r, DeviceName(s))

\* both Connected, and B handles a packet from A's tunnel under its record of
\* A, which sits at index 0 while A keeps B at index 1
DataResolved ==
    /\ BothConnected
    /\ hs["A"][1].remote_idx # hs["B"][0].remote_idx
    /\ \E w \in WorkersOf("B") :
         /\ wk["B"][w].pc = "handle"
         /\ wk["B"][w].pkt.kind = "Data"
         /\ wk["B"][w].pkt.data \in TunInputs("A")
         /\ wk["B"][w].peer = 0

\* the record that produced the bytes on the wire, and the one they are for
PairSender == IF pair.from = "P" THEN pair.P ELSE pair.Q
PairReceiver == IF pair.from = "P" THEN pair.Q ELSE pair.P

\* C13: the sender_idx of every Data message produced by encapsulate is the
\* remote_idx of the sending record, which is the local_idx of the record
\* the receiver keeps of the sender.
DataCarriesRemoteIdx ==
    (pair.pc \in {"answered", "done"} /\ parse_from(pair.wire).kind = "Data") =>
        /\ parse_from(pair.wire).sender_idx = PairSender.hs.remote_idx
        /\ parse_from(pair.wire).sender_idx = PairReceiver.local_idx

\* C13, as written: the sender_idx of every Data message produced by
\* encapsulate is the local_idx of the sending record.
DataCarriesLocalIdx ==
    (pair.pc \in {"answered", "done"} /\ parse_from(pair.wire).kind = "Data") =>
        parse_from(pair.wire).sender_idx = PairSender.local_idx

\* the two records have different indices and the responder has sent a Data
\* packet with a payload
DataSentByResponder ==
    /\ pair.pc = "done"
    /\ pair.from = "Q"
    /\ pair.P.local_idx # pair.Q.local_idx
    /\ parse_from(pair.wire) = PacketData(pair.P.local_idx, Ipv4(0, 2))

\* the last call on the peer was op
Called(op) == pair.pc = "peer" /\ pair.last.op = op

\* C14: send_handshake returns a HandshakeInit with the caller's name and
\* the record's local_idx and stores HandshakeSent if and only if the state
\* is None and the endpoint address is known; otherwise it returns None and
\* leaves the state as it was.
SendHandshakeFromNone ==
    Called("send_handshake") =>
        IF pair.last.before = HsNone /\ pair.peer.endpoint.addr # NoAddr
        THEN /\ pair.last.act.kind = "WriteToNetwork"
             /\ parse_from(pair.last.act.data) =
                    HandshakeInit(PeerName, pair.peer.local_idx)
             /\ pair.peer.hs = HsSent
        ELSE /\ pair.last.act = ActNone
             /\ pair.peer.hs = pair.last.before

HandshakeSentFromNone ==
    /\ Called("send_handshake")
    /\ pair.last.before = HsNone
    /\ pair.peer.local_idx = 2
    /\ pair.peer.hs = HsSent
    /\ pair.last.act.kind = "WriteToNetwork"

\* C15: in None, a HandshakeInit(name, their_idx) stores
\* HandshakeReceived(their_idx) and returns a HandshakeResponse with
\* assigned_idx = the record's local_idx and sender_idx = their_idx.
InitAnswered ==
    (/\ Called("handle_incoming_packet")
     /\ pair.last.packet.kind = "HandshakeInit"
     /\ pair.last.before = HsNone) =>
        /\ pair.peer.hs = HsReceived(pair.last.packet.assigned_idx)
        /\ pair.last.act.kind = "WriteToNetwork"
        /\ parse_from(pair.last.act.data) =
                HandshakeResponse(pair.peer.local_idx, pair.last.packet.assigned_idx)

InitAnsweredOtherIdx ==
    /\ Called("handle_incoming_packet")
    /\ pair.last.packet.kind = "HandshakeInit"
    /\ pair.last.before = HsNone
    /\ pair.last.packet.assigned_idx # pair.peer.local_idx
    /\ pair.peer.hs = HsReceived(pair.last.packet.assigned_idx)

\* C16: in HandshakeSent, a HandshakeResponse stores Connected with
\* remote_idx = the assigned_idx of the response and returns one Data packet
\* with an empty payload.
ResponseConnects ==
    (/\ Called("handle_incoming_packet")
     /\ pair.last.packet.kind = "HandshakeResponse"
     /\ pair.last.before = HsSent) =>
        /\ pair.peer.hs = HsConnected(pair.last.packet.assigned_idx)
        /\ pair.last.act.kind = "WriteToNetwork"
        /\ parse_from(pair.last.act.data).kind = "Data"
        /\ parse_from(pair.last.act.data).data = <<>>

ResponseConnected ==
    /\ Called("handle_incoming_packet")
    /\ pair.last.packet.kind = "HandshakeResponse"
    /\ pair.last.before = HsSent
    /\ pair.last.packet.assigned_idx # pair.last.packet.sender_idx
    /\ pair.peer.hs = HsConnected(pair.last.packet.assigned_idx)

\* the source written in the header of an IPv4 packet
SrcOf(p) == {src \in 0..(Pow2(AddrBits) - 1) : \E dst \in 0..(Pow2(AddrBits) - 1) : p = Ipv4(src, dst)}

\* the Action a Data packet with payload data ends in once the state lets
\* it through
PayloadAction(data, act) ==
    IF SrcOf(data) # {}
    THEN act.kind = "WriteToTunn" /\ act.data = data /\ act.src \in SrcOf(data)
    ELSE act = ActNone

HandledData(st) ==
    /\ Called("handle_incoming_packet")
    /\ pair.last.packet.kind = "Data"
    /\ pair.last.before.st = st

\* C17: in HandshakeReceived(r), a Data packet with any payload stores
\* Connected(r); nothing is returned for the network; a payload with an IPv4
\* header is returned for the tunnel with the header's source address, any
\* other payload returns None.
DataPromotes ==
    HandledData("HandshakeReceived") =>
        /\ pair.peer.hs = HsConnected(pair.last.before.remote_idx)
        /\ PayloadAction(pair.last.packet.data, pair.last.act)

\* C17, as written: in HandshakeReceived(r), a Data packet with any payload
\* stores Connected(r) and returns None.
DataPromotesOnly ==
    HandledData("HandshakeReceived") =>
        /\ pair.peer.hs = HsConnected(pair.last.before.remote_idx)
        /\ pair.last.act = ActNone

DataPromotedAndWritten ==
    /\ HandledData("HandshakeReceived")
    /\ pair.peer.hs = HsConnected(pair.last.before.remote_idx)
    /\ pair.last.act = WriteToTunn(Ipv4(1, 3), 1)

\* C18: in Connected(r), a Data packet whose payload has an IPv4 header is
\* returned for the tunnel, payload unchanged, with the header's source
\* address; any other payload returns None; the state stays Connected(r).
DataPassedOn ==
    HandledData("Connected") =>
        /\ pair.peer.hs = pair.last.before
        /\ PayloadAction(pair.last.packet.data, pair.last.act)

DataWritten ==
    /\ HandledData("Connected")
    /\ pair.peer.hs = pair.last.before
    /\ pair.last.act = WriteToTunn(Ipv4(0, 2), 0)

\* C19: in HandshakeSent, HandshakeReceived(r) and Connected(r) a
\* HandshakeInit returns None and leaves the state and its remote_idx as they
\* were.
InitIgnored ==
    (/\ Called("handle_incoming_packet")
     /\ pair.last.packet.kind = "HandshakeInit"
     /\ pair.last.before # HsNone) =>
        /\ pair.peer.hs = pair.last.before
        /\ pair.last.act = ActNone

InitIgnoredConnected ==
    /\ Called("handle_incoming_packet")
    /\ pair.last.packet.kind = "HandshakeInit"
    /\ pair.last.before.st = "Connected"
    /\ pair.last.packet.assigned_idx # pair.last.before.remote_idx
    /\ pair.peer.hs = pair.last.before

\* a packet that names no peer of device r
NoPeerOf(r, packet) ==
    \/ /\ packet.kind = "HandshakeInit"
       /\ \A i \in PeerIdx(r) : PeerConf(r)[i + 1].name # packet.sender_name
    \/ /\ packet.kind \in {"HandshakeResponse", "Data"}
       /\ packet.sender_idx \notin 0..(NumPeers(r) - 1)

\* a packet the state of the peer it names does not expect
OutOfState(state, packet) ==
    \/ packet.kind = "HandshakeResponse" /\ state.st # "HandshakeSent"
    \/ packet.kind = "Data" /\ state.st \in {"None", "HandshakeSent"}

\* the datagram a step takes off queue q, which it leaves as q2
TakenFrom(q, q2) == IF q # <<>> /\ q2 = Tail(q) THEN {Head(q)} ELSE {}

\* the datagrams a step takes off the sockets of device r
Taken(r) ==
    TakenFrom(dq[r], dq'[r])
      \cup UNION {IF socks'[r][n].open
                  THEN TakenFrom(socks[r][n].q, socks'[r][n].q) ELSE {} :
                    n \in 1..Len(socks[r])}

NothingDone == UNCHANGED <<hs, tunw, dq, tunq>> /\ \A r \in Routers :
    /\ Len(socks'[r]) = Len(socks[r])
    /\ \A n \in 1..Len(socks[r]) : socks'[r][n].q = socks[r][n].q \/ socks'[r][n].q = <<>>

StartTargets(r, r2) == {i \in PeerIdx(r) : PeerConf(r)[i + 1].endpoint = CurAddr(r2)}

\* what lies on the default socket of r2 once device r has started
StartDelivered(r, r2) ==
    /\ Len(dq'[r2]) = Len(dq[r2]) + Cardinality(StartTargets(r, r2))
    /\ SubSeq(dq'[r2], 1, Len(dq[r2])) = dq[r2]
    /\ \A i \in StartTargets(r, r2) :
         \E k \in (Len(dq[r2]) + 1)..Len(dq'[r2]) :
            /\ dq'[r2][k].src = CurAddr(r)
            /\ parse_from(dq'[r2][k].data) = HandshakeInit(DeviceName(r), i)

\* C21: when start returns, the tunnel and the default socket are registered,
\* every peer configured with an endpoint address is in HandshakeSent with
\* one HandshakeInit sent to that address, and every other peer is in None
\* with nothing sent to it.
StartCompletes ==
    [][\A r \in Routers :
         (wk[r][MainWorker].pc = "init" /\ wk'[r][MainWorker].pc # "init") =>
            /\ registered'[r] = {[fd |-> UdpFd, token |-> TokenDisconnected],
                                 [fd |-> TunFd, token |-> TokenTun]}
            /\ \A i \in PeerIdx(r) :
                 hs'[r][i] = IF PeerConf(r)[i + 1].endpoint # NoAddr
                             THEN HsSent ELSE HsNone
            /\ \A r2 \in Routers : StartDelivered(r, r2)
            /\ socks' = socks]_vars

\* A has started and B has not: A's record of B is HandshakeSent, its record
\* of C is None, and one HandshakeInit lies on B's default socket
StartedOne ==
    /\ wk["B"][MainWorker].pc = "init"
    /\ wk["A"][MainWorker].pc = "wait"
    /\ registered["A"] = {[fd |-> UdpFd, token |-> TokenDisconnected],
                          [fd |-> TunFd, token |-> TokenTun]}
    /\ hs["A"] = (0 :> HsNone @@ 1 :> HsSent)
    /\ dq["B"] = <<[src |-> "a1", data |-> format(HandshakeInit(<<65>>, 1))]>>

TableCalled(op) == pair.pc = "table" /\ pair.last.op = op

\* C22: on a table built by any sequence of inserts, get(x) returns the data
\* of an entry with the longest prefix among the entries whose range holds
\* x, and None if no range holds x.
LongestPrefixLookup ==
    TableCalled("get") =>
        LET hits == {e \in pair.table : InRange(pair.last.ip, e)}
        IN  IF hits = {} THEN pair.last.ret = NoIdx
            ELSE \E e \in hits : /\ pair.last.ret = e.data
                                 /\ \A f \in hits : f.cidr <= e.cidr

\* a range of prefix length 1 inside the range of prefix length 0, with
\* different data, and a key in both
NestedLookup ==
    /\ TableCalled("get")
    /\ [ip |-> 0, cidr |-> 0, data |-> 1] \in pair.table
    /\ [ip |-> 2, cidr |-> 1, data |-> 0] \in pair.table
    /\ pair.last.ip = 3
    /\ pair.last.ret = 0

SameKey(e) == e.ip = pair.last.ip /\ e.cidr = pair.last.cidr

\* C23: insert under a key already present replaces the data and returns the
\* previous data, under a new key it returns None; afterwards the table holds
\* one entry under that key and every entry under another key is as before.
InsertReplaces ==
    TableCalled("insert") =>
        /\ IF \E e \in pair.last.before : SameKey(e)
           THEN \E e \in pair.last.before : SameKey(e) /\ pair.last.ret = e.data
           ELSE pair.last.ret = NoIdx
        /\ {e \in pair.table : SameKey(e)} =
                {[ip |-> pair.last.ip, cidr |-> pair.last.cidr, data |-> pair.last.data]}
        /\ {e \in pair.table : ~SameKey(e)} = {e \in pair.last.before : ~SameKey(e)}

InsertReplaced ==
    /\ TableCalled("insert")
    /\ pair.last.ret # NoIdx
    /\ pair.last.ret # pair.last.data
    /\ Cardinality(pair.table) = 2

Waiting(r, fd) ==
    CASE fd = TunFd -> tunq[r]
      [] fd = UdpFd -> dq[r]
      [] OTHER -> socks[r][fd.n].q

\* a thread at the first recv of a handler, with nothing to read
WokenForNothing(r, w) ==
    /\ wk[r][w].pc \in {"udp_recv", "tun_recv"}
    /\ ~wk[r][w].got
    /\ Waiting(r, wk[r][w].fd) = <<>>

\* C25: a handler woken for a descriptor with nothing queued reads nothing,
\* sends nothing, writes nothing to the tunnel, changes no peer, and returns
\* to the event loop, which waits again.
SpuriousWakeReturns ==
    [][\A r \in Routers : \A w \in WorkersOf(r) :
         (/\ WokenForNothing(r, w)
          /\ wk'[r][w] # wk[r][w]
          /\ \A v \in WorkersOf(r) \ {w} : wk'[r][v] = wk[r][v]
          /\ env' = env)
            => /\ wk'[r][w] = Idle("wait")
               /\ UNCHANGED <<hs, ep, dq, tunq, tunw>>
               /\ \A r2 \in Routers :
                    /\ Len(socks'[r2]) = Len(socks[r2])
                    /\ \A n \in 1..Len(socks[r2]) :
                         socks'[r2][n].q = socks[r2][n].q \/ ~socks'[r2][n].open]_vars

\* A's only thread has been woken for the default socket, has not read yet,
\* and nothing is queued there
SpuriousWake ==
    /\ wk["A"][MainWorker].pc = "udp_recv"
    /\ wk["A"][MainWorker].fd = UdpFd
    /\ ~wk["A"][MainWorker].got
    /\ dq["A"] = <<>>

\* C26: no thread waits forever for a lock of a peer: whatever methods the
\* threads run on the same peer, a thread parked on the handshake-state lock
\* or on the endpoint lock is handed that lock
Parked(t, l) == \E n \in 1..Len(pair.queue[l]) : pair.queue[l][n] = t

Holds(t, l) == \E h \in pair.held[l] : h[1] = t

DeleteOnlyRegistered ==
    [][\A r \in Routers : \A w \in WorkersOf(r) :
         (/\ wk[r][w].pc = "poll_delete"
          /\ wk'[r][w].pc # "poll_delete"
          /\ \A v \in WorkersOf(r) \ {w} : wk'[r][v] = wk[r][v]
          /\ env' = env)
            => IsRegistered(registered[r], wk[r][w].conn)]_vars

\* C27 fails: a thread is about to call poll.delete on the socket it took out
\* of the endpoint, which another thread has stored there and not registered
\* yet; no system call has failed
DeleteUnregistered ==
    \E r \in Routers : \E w, v \in WorkersOf(r) :
        /\ env.faults = 0
        /\ wk[r][w].pc = "poll_delete"
        /\ wk[r][v].pc = "register"
        /\ wk[r][v].conn = wk[r][w].conn
        /\ ~IsRegistered(registered[r], wk[r][w].conn)

\* C28: encapsulate never changes the handshake state or the endpoint; it
\* returns write-to-network with the payload wrapped as a Data message tagged
\* remote_idx in HandshakeReceived and Connected, and the do-nothing action
\* in None and HandshakeSent
Encapsulated == pair'.pc = "peer" /\ pair'.last.op = "encapsulate" /\ pair' # pair

PeersFixed ==
    [][/\ \A i \in 1..Len(pair'.peers_by_index) :
            pair'.peers_by_index[i].local_idx = i - 1
       /\ \A i \in 1..Len(pair.peers_by_index) :
            /\ Len(pair'.peers_by_index) >= i
            /\ pair'.peers_by_index[i] = pair.peers_by_index[i]
       /\ pair.at = "wait" =>
            /\ pair'.at = "wait"
            /\ pair'.peers_by_index = pair.peers_by_index
            /\ pair'.peers_by_name = pair.peers_by_name]_vars

\* C29 is reached: the loops run over a full list and a lookup by index
\* returned the last peer
LastPeerFound ==
    /\ pair.pc = "main"
    /\ pair.at = "wait"
    /\ Len(pair.peers_by_index) = MaxPeers
    /\ pair.last.op = "peers_by_index.get"
    /\ pair.last.found.made = MaxPeers
    /\ pair.last.found.local_idx = MaxPeers - 1

\* C30: when two devices are configured with each other's endpoint and both
\* have called send_handshake, both records are HandshakeSent and stay so
\* whatever arrives: each ignores the other's HandshakeInit, nothing is
\* answered, and neither is ever Connected
BothInitiateStuck ==
    /\ \A side \in Sides :
         pair.peer[side].started => pair.peer[side].hs = HsSent
    /\ \A side \in Sides : \A n \in 1..Len(pair.inbox[side]) :
         parse_from(pair.inbox[side][n]) =
             HandshakeInit(SideName(Other(side)), pair.peer[Other(side)].local_idx)

\* C30 is reached: each side has handled the other's HandshakeInit; both
\* are still HandshakeSent and nothing is on its way
BothIgnored ==
    /\ pair.pc = "both"
    /\ \A side \in Sides :
         /\ pair.peer[side].seen = 1
         /\ pair.peer[side].hs = HsSent
         /\ pair.inbox[side] = <<>>

Halted(r) == \A w \in WorkersOf(r) : wk[r][w].pc \in Stopped

Unread(r) ==
    \/ dq[r] # <<>>
    \/ tunq[r] # <<>>
    \/ \E n \in 1..Len(socks[r]) : socks[r][n].open /\ socks[r][n].q # <<>>

Collides(marker, token) ==
    /\ token.tag = "Sock"
    /\ token.id = "ConnectedPeer"
    /\ token.idx = <<marker % Half, (marker \div Half) % Half>>

TokenRoundTripButOne ==
    pair.step = "decoded" =>
        /\ pair.token # UnknownToken =>
              pair.out = IF Collides(pair.marker, pair.token)
                         THEN TokenDisconnected ELSE pair.token
        /\ pair.out = TokenTun <=> (pair.value[3] = 1 /\ pair.value[4] = 0)
        /\ pair.out = UnknownToken <=>
              ~(pair.value[3] \in {1, 2} /\ pair.value[4] = 0)

\* C33, as written: every token comes back as itself
TokenRoundTrip ==
    (pair.step = "decoded" /\ pair.token # UnknownToken) => pair.out = pair.token

\* C33 differs: ConnectedPeer(2^32 - 1) was encoded with -1 kept for
\* Disconnected and decoded as Disconnected
TokenCollision ==
    /\ pair.pc = "token"
    /\ pair.step = "decoded"
    /\ pair.marker = -1
    /\ pair.token = TokenConnectedPeer(<<65535, 65535>>)
    /\ pair.value = <<65535, 65535, 2, 0>>
    /\ pair.out = TokenDisconnected

\* C34: a HandshakeInit reaches handle_incoming_packet with the peer's
\* endpoint already set to the address it came from, and when no system call
\* fails the HandshakeResponse returned for it is sent to that address, on
\* the peer's connected socket if it has one and from the default socket if
\* not: the host at that address finds it on one of its sockets
ResponseToSource ==
    [][\A r \in Routers : \A w \in WorkersOf(r) :
         /\ (wk'[r][w].pc = "handle" /\ wk'[r][w].pkt.kind = "HandshakeInit")
              => ep'[r][wk'[r][w].peer].addr = wk'[r][w].src
         /\ (/\ wk[r][w].pc = "dispatch"
             /\ wk[r][w].pkt.kind = "HandshakeInit"
             /\ wk[r][w].act.kind = "WriteToNetwork"
             /\ wk'[r][w].pc = "udp_recv"
             /\ env' = env)
              => LET x == wk[r][w].src
                     e == ep[r][wk[r][w].peer]
                     d == [src |-> CurAddr(r), data |-> wk[r][w].act.data]
                 IN  /\ e.addr = x
                     /\ e.conn # NoFd => socks[r][e.conn.n].remote = x
                     /\ parse_from(d.data).kind = "HandshakeResponse"
                     /\ \A r2 \in RouterAt(x) :
                          \/ dq'[r2] = Append(dq[r2], d)
                          \/ \E n \in 1..Len(socks[r2]) :
                               /\ socks[r2][n].remote = CurAddr(r)
                               /\ socks'[r2][n].q = Append(socks[r2][n].q, d)]_vars

\* C34 is reached: B, configured without A's address, has recorded the
\* address A's HandshakeInit came from and connected a socket to it, and its
\* HandshakeResponse waits on A's default socket
ResponseArrived ==
    /\ env.faults = 0
    /\ PeerConf("B")[1].endpoint = NoAddr
    /\ ep["B"][0].addr = CurAddr("A")
    /\ ep["B"][0].conn # NoFd
    /\ hs["B"][0].st = "HandshakeReceived"
    /\ \E k \in 1..Len(dq["A"]) :
         /\ dq["A"][k].src = CurAddr("B")
         /\ parse_from(dq["A"][k].data).kind = "HandshakeResponse"

\* C35: a step of a thread that handles a datagram changes the handshake
\* state, the address and the connected socket of no peer record but the one
\* the datagram names (by sender_name for a HandshakeInit, by sender_idx
\* otherwise), and of no record of another device, whatever the other
\* threads are doing
Names(r, packet, j) ==
    IF packet.kind = "HandshakeInit"
    THEN PeerConf(r)[j + 1].name = packet.sender_name
    ELSE packet.sender_idx = j

OtherRecordsKept ==
    [][\A r \in Routers : \A w \in WorkersOf(r) :
         (/\ wk[r][w].pkt.kind \in {"HandshakeInit", "HandshakeResponse", "Data"}
          /\ wk'[r][w] # wk[r][w]
          /\ \A v \in WorkersOf(r) \ {w} : wk'[r][v] = wk[r][v])
            => /\ \A j \in PeerIdx(r) :
                    ~Names(r, wk[r][w].pkt, j)
                        => hs'[r][j] = hs[r][j] /\ ep'[r][j] = ep[r][j]
               /\ \A r2 \in Routers \ {r} :
                    hs'[r2] = hs[r2] /\ ep'[r2] = ep[r2]]_vars

\* C35 is reached: B has handled a datagram under the index of its peer C,
\* whose record now holds the sender's address and a connected socket, while
\* its record of A is HandshakeReceived with A's address and socket
OtherRecordUntouched ==
    /\ ep["B"][1].addr = StrayAddr
    /\ ep["B"][1].conn # NoFd
    /\ hs["B"][1] = HsNone
    /\ hs["B"][0].st = "HandshakeReceived"
    /\ ep["B"][0].addr = CurAddr("A")
    /\ ep["B"][0].conn # NoFd
    /\ ep["B"][0].conn # ep["B"][1].conn

\* C36: a packet is added to the tunnel writes of a device only by a thread
\* that dispatches the action of a Data packet, under the index that packet
\* names, while the record of that peer is Connected; and every packet ever
\* written belongs to a peer whose record is Connected, so nothing received
\* for a peer in None or HandshakeSent reaches the tunnel
TunnelWriteConnected ==
    [][\A r \in Routers :
         /\ tunw'[r] # tunw[r]
              => \E w \in WorkersOf(r) :
                    /\ wk[r][w].pc = "dispatch"
                    /\ wk[r][w].pkt.kind = "Data"
                    /\ wk[r][w].pkt.sender_idx = wk[r][w].peer
                    /\ hs[r][wk[r][w].peer].st = "Connected"
                    /\ tunw'[r] = tunw[r] \cup {[peer |-> wk[r][w].peer,
                                                 data |-> wk[r][w].pkt.data]}
         /\ \A x \in tunw'[r] : hs'[r][x.peer].st = "Connected"]_vars

\* C36 is reached: B has written a packet of A to its tunnel, and A, which
\* sent it, had it from its own tunnel after the handshake
TunnelWritten ==
    /\ \E x \in tunw["B"] : x.peer = 0
    /\ hs["B"][0].st = "Connected"
    /\ hs["A"][1].st = "Connected"

\* ------------------------------------------ one peer called by several threads
\* a Peer shared by the threads of the event loop, each of which calls
\* send_handshake or handle_incoming_packet on any packet; the handlers that
\* hold the write lock from their test to their assignment are one step, and
\* handle_packet_data, which drops the read lock before it takes the write
\* lock, is two, with the remote_idx it copied out held in between
RaceThreads == {"t0", "t1"}

RaceIdle == [pc |-> "idle", held |-> NoIdx]

InitRace ==
    /\ Devices
    /\ \E l \in 0..MaxIdx, a \in {NoAddr, "q"} :
         pair = [pc |-> "race",
                 peer |-> [hs |-> HsNone, local_idx |-> l,
                           endpoint |-> [addr |-> a, conn |-> NoFd]],
                 th |-> [t \in RaceThreads |-> RaceIdle]]

\* peer.send_handshake(name, dst), the write lock held throughout
RaceSendHandshake(t) ==
    /\ pair.pc = "race"
    /\ pair.th[t].pc = "idle"
    /\ pair' = [pair EXCEPT !.peer.hs =
                    send_handshake(pair.peer.hs, pair.peer.endpoint,
                                   pair.peer.local_idx, PeerName).hs]
    /\ UNCHANGED device_vars

\* peer.handle_incoming_packet(packet, dst) up to the point where
\* handle_packet_data drops its read lock
RaceHandle(t) ==
    /\ pair.pc = "race"
    /\ pair.th[t].pc = "idle"
    /\ \E packet \in PeerPackets :
         IF packet.kind = "Data" /\ handle_packet_data_read(pair.peer.hs) = "upgrade"
         THEN pair' = [pair EXCEPT !.th[t] = [pc |-> "pd_write",
                                              held |-> pair.peer.hs.remote_idx]]
         ELSE pair' = [pair EXCEPT !.peer.hs =
                          handle_incoming_packet(pair.peer.hs, pair.peer.local_idx,
                                                 packet).hs]
    /\ UNCHANGED device_vars

\* Peer::handle_packet_data, the assignment under the write lock
RaceWrite(t) ==
    /\ pair.pc = "race"
    /\ pair.th[t].pc = "pd_write"
    /\ pair' = [pair EXCEPT !.peer.hs = handle_packet_data_write(pair.th[t].held),
                            !.th[t] = RaceIdle]
    /\ UNCHANGED device_vars

NextRace ==
    \E t \in RaceThreads :
        \/ RaceSendHandshake(t)
        \/ RaceHandle(t)
        \/ RaceWrite(t)

SpecRace == InitRace /\ [][NextRace]_vars

\* the moves of the handshake state machine
Forward(a, b) ==
    \/ a.st = "None" /\ b.st = "HandshakeSent"
    \/ a.st = "None" /\ b.st = "HandshakeReceived"
    \/ a.st = "HandshakeSent" /\ b.st = "Connected"
    \/ a.st = "HandshakeReceived" /\ b.st = "Connected"

\* C37: whatever the threads call and however their steps interleave, every
\* change of a peer's handshake state is one of None to HandshakeSent, None to
\* HandshakeReceived, HandshakeSent to Connected and HandshakeReceived to
\* Connected, and a remote_idx the state holds is the one it holds afterwards
HandshakeForward ==
    [][pair'.peer.hs # pair.peer.hs
         => /\ Forward(pair.peer.hs, pair'.peer.hs)
            /\ pair.peer.hs.remote_idx # NoIdx
                 => pair'.peer.hs.remote_idx = pair.peer.hs.remote_idx]_vars

\* C37 is reached: two threads read HandshakeReceived for a Data packet each,
\* one has written Connected, and the other is about to write
SecondUpgrade ==
    /\ pair.peer.hs.st = "Connected"
    /\ \E t \in RaceThreads :
         /\ pair.th[t].pc = "pd_write"
         /\ pair.th[t].held = pair.peer.hs.remote_idx

====
